---- MODULE Spec2Model ----
(***************************************************************************)
(* Model of the document field-extraction engine of src/era/pdf_extractor  *)
(* (AmountNormalizer, field primitives, line-item table mapper, confidence *)
(* aggregator, the four per-type extractors) and of the classify-then-     *)
(* extract path of web/routes/era_dashboard.                               *)
(*                                                                         *)
(* Python values are modelled as follows: str is a TLA+ string, None is    *)
(* the record None, a str-or-None result is None or Str(s), a list is a    *)
(* sequence.  Confidences are integers in hundredths (0.90 is 90).         *)
(***************************************************************************)
EXTENDS Integers, Sequences, FiniteSets, Bags, TLC

VARIABLES
    raw,            \* AmountNormalizer: the input string
    normalized,     \* AmountNormalizer: the value returned, or Pending
    all_tables,     \* LineItemTableMapper: the raw tables handed in
    line_items,     \* LineItemTableMapper: List(the list returned), or Pending
    agg_confidences,\* ConfidenceAggregator: the field_confidences map handed in
    agg_key_fields, \* ConfidenceAggregator: the key_fields handed in
    agg_result,     \* ConfidenceAggregator: the value returned, in exact arithmetic, or Pending
    agg_double,     \* ConfidenceAggregator: the double returned, or Pending
    pdf_path,       \* extractors: the document handed in
    doc_type,       \* extractors: the extractor that ran, "none" before
    result,         \* extractors: the result returned, or Pending
    upload_status,  \* background job: pdf_uploads.status of the upload
    error_message,  \* background job: pdf_uploads.error_message of the upload
    extraction,     \* background job: the row of pdf_extractions, or None
    _model,         \* pdf_extractor module: the global _model
    _processor,     \* pdf_extractor module: the global _processor
    _device,        \* pdf_extractor module: the global _device
    loader_calls,   \* pdf_extractor module: the calls of _get_ml_model so far
    calls,          \* concurrent callers: per thread, the call it makes and its result
    amount_text,    \* LabeledAmount: the text handed in
    labeled_amount, \* LabeledAmount: [value, confidence] returned, or Pending
    job,            \* background thread: the step it takes next, "none" without a thread
    exc             \* background thread: the message of the exception raised, or None

vars == <<raw, normalized, all_tables, line_items, agg_confidences, agg_key_fields,
          agg_result, agg_double, pdf_path, doc_type, result, upload_status, error_message,
          extraction, _model, _processor, _device, loader_calls, calls, amount_text,
          labeled_amount, job, exc>>

normalizerVars == <<raw, normalized>>
mapperVars == <<all_tables, line_items>>
aggregatorVars == <<agg_confidences, agg_key_fields, agg_result, agg_double>>
extractorVars == <<pdf_path, doc_type, result, upload_status, error_message, extraction>>
moduleVars == <<_model, _processor, _device, loader_calls>>
primitiveVars == <<amount_text, labeled_amount>>
jobVars == <<job, exc>>

(***************************************************************************)
(* Python values                                                           *)
(***************************************************************************)
None == [t |-> "None"]
Str(s) == [t |-> "str", s |-> s]
List(l) == [t |-> "list", l |-> l]
Pending == [t |-> "pending"]

(***************************************************************************)
(* Bounds of the model                                                     *)
(***************************************************************************)
MaxRawLen == 4      \* longest string enumerated exhaustively for the normalizer
MaxCols == 2        \* widest header row enumerated exhaustively
MaxRows == 2        \* most body rows of an enumerated table
MaxAggFields == 4   \* most fields of an enumerated field_confidences map
MaxPages == 2       \* most pages of a document
MaxThreads == 2     \* most threads calling extractors at once
MaxIntDigits == 4   \* most digits before the decimal point of an enumerated amount

(***************************************************************************)
(* Strings: the pieces of Python's str and re the code uses                *)
(***************************************************************************)
Digits == {"0", "1", "2", "3", "4", "5", "6", "7", "8", "9"}
Spaces == {" ", "\t", "\n", "\r"}

Ch(s, i) == SubSeq(s, i, i)

IsDigit(c) == c \in Digits
IsSpace(c) == c \in Spaces

AllDigits(s) == \A i \in 1..Len(s) : IsDigit(Ch(s, i))

\* str.strip(): the string without its leading and trailing whitespace
RECURSIVE LStrip(_)
LStrip(s) ==
    IF Len(s) > 0 /\ IsSpace(Ch(s, 1)) THEN LStrip(SubSeq(s, 2, Len(s))) ELSE s

RECURSIVE RStrip(_)
RStrip(s) ==
    IF Len(s) > 0 /\ IsSpace(Ch(s, Len(s))) THEN RStrip(SubSeq(s, 1, Len(s) - 1)) ELSE s

Strip(s) == RStrip(LStrip(s))

\* str.replace(a, b) for a one-character a
RECURSIVE ReplaceFrom(_, _, _, _)
ReplaceFrom(s, i, a, b) ==
    IF i > Len(s) THEN ""
    ELSE (IF Ch(s, i) = a THEN b ELSE Ch(s, i)) \o ReplaceFrom(s, i + 1, a, b)

Replace(s, a, b) == ReplaceFrom(s, 1, a, b)

HasChar(s, c) == \E i \in 1..Len(s) : Ch(s, i) = c

\* position of the nearest non-whitespace character left / right of i (0 if none)
RECURSIVE PrevNonSpace(_, _)
PrevNonSpace(s, i) ==
    IF i < 1 THEN 0
    ELSE IF IsSpace(Ch(s, i)) THEN PrevNonSpace(s, i - 1) ELSE i

RECURSIVE NextNonSpace(_, _)
NextNonSpace(s, i) ==
    IF i > Len(s) THEN 0
    ELSE IF IsSpace(Ch(s, i)) THEN NextNonSpace(s, i + 1) ELSE i

\* re.sub(r"(?<=\d)\s+(?=\d)", "", s): a whitespace run goes exactly when the
\* character before the run and the character after it are digits
InDigitGap(s, i) ==
    /\ IsSpace(Ch(s, i))
    /\ PrevNonSpace(s, i) > 0
    /\ IsDigit(Ch(s, PrevNonSpace(s, i)))
    /\ NextNonSpace(s, i) > 0
    /\ IsDigit(Ch(s, NextNonSpace(s, i)))

RECURSIVE RemoveDigitGapsFrom(_, _)
RemoveDigitGapsFrom(s, i) ==
    IF i > Len(s) THEN ""
    ELSE (IF InDigitGap(s, i) THEN "" ELSE Ch(s, i)) \o RemoveDigitGapsFrom(s, i + 1)

RemoveDigitGaps(s) == RemoveDigitGapsFrom(s, 1)

\* re.match(r"^\d{1,3}(<sep>\d{3})+<dec>\d{2}$", s) for one-character sep and dec
\* (s carries no trailing newline where the code applies it: it was stripped)
MatchesGrouped(s, sep, dec) ==
    LET n == Len(s) IN
    /\ n >= 8
    /\ Ch(s, n - 2) = dec
    /\ IsDigit(Ch(s, n - 1))
    /\ IsDigit(Ch(s, n))
    /\ \E k \in 1..3 :
         /\ (n - 3 - k) % 4 = 0
         /\ (n - 3 - k) \div 4 >= 1
         /\ AllDigits(SubSeq(s, 1, k))
         /\ \A j \in 0..(((n - 3 - k) \div 4) - 1) :
              /\ Ch(s, k + 4 * j + 1) = sep
              /\ AllDigits(SubSeq(s, k + 4 * j + 2, k + 4 * j + 4))

\* a slip in the character class: re.sub(r"[^\d]", "", s) drops the decimal mark too
RECURSIVE KeepDigitsFrom(_, _)
KeepDigitsFrom(s, i) ==
    IF i > Len(s) THEN ""
    ELSE (IF IsDigit(Ch(s, i)) THEN Ch(s, i) ELSE "") \o KeepDigitsFrom(s, i + 1)

KeepDigitsOnly(s) == KeepDigitsFrom(s, 1)

\* re.sub(r"[^\d.]", "", s)
RECURSIVE KeepNumericFrom(_, _)
KeepNumericFrom(s, i) ==
    IF i > Len(s) THEN ""
    ELSE (IF IsDigit(Ch(s, i)) \/ Ch(s, i) = "." THEN Ch(s, i) ELSE "")
         \o KeepNumericFrom(s, i + 1)

KeepNumeric(s) == KeepNumericFrom(s, 1)

CountChar(s, c) == Cardinality({i \in 1..Len(s) : Ch(s, i) = c})

\* float(s) does not raise, for s made of digits and '.' only (all the code passes):
\* at least one digit and at most one '.'
FloatParses(s) ==
    /\ \E i \in 1..Len(s) : IsDigit(Ch(s, i))
    /\ CountChar(s, ".") <= 1

(***************************************************************************)
(* AmountNormalizer                                                        *)
(***************************************************************************)
\* a slip in the European rule: the two replace calls in the other order
RegionalFormSwapped(cleaned) ==
    IF MatchesGrouped(cleaned, ".", ",")
    THEN Replace(Replace(cleaned, ",", "."), ".", "")
    ELSE IF MatchesGrouped(cleaned, ",", ".")
    THEN Replace(cleaned, ",", "")
    ELSE IF HasChar(cleaned, ",") /\ ~HasChar(cleaned, ".")
    THEN Replace(cleaned, ",", ".")
    ELSE cleaned

\* the European / US / lone-comma rewriting, lines 925-933
RegionalForm(cleaned) ==
    IF MatchesGrouped(cleaned, ".", ",")
    THEN Replace(Replace(cleaned, ".", ""), ",", ".")
    ELSE IF MatchesGrouped(cleaned, ",", ".")
    THEN Replace(cleaned, ",", "")
    ELSE IF HasChar(cleaned, ",") /\ ~HasChar(cleaned, ".")
    THEN Replace(cleaned, ",", ".")
    ELSE cleaned

_normalize_amount(r) ==
    IF r = "" THEN None
    ELSE LET cleaned == KeepNumeric(RegionalForm(RemoveDigitGaps(Strip(r))))
         IN  IF FloatParses(cleaned) THEN Str(cleaned) ELSE Str(Strip(r))

(***************************************************************************)
(* LineItemTableMapper                                                     *)
(***************************************************************************)
UpperCase == <<"A", "B", "C", "D", "E", "F", "G", "H", "I", "J", "K", "L", "M", "N",
               "O", "P", "Q", "R", "S", "T", "U", "V", "W", "X", "Y", "Z", "Æ", "Ø", "Å", "À">>
LowerCase == <<"a", "b", "c", "d", "e", "f", "g", "h", "i", "j", "k", "l", "m", "n",
               "o", "p", "q", "r", "s", "t", "u", "v", "w", "x", "y", "z", "æ", "ø", "å", "à">>

LowerOf == [c \in {UpperCase[k] : k \in 1..Len(UpperCase)} |->
               LowerCase[CHOOSE k \in 1..Len(UpperCase) : UpperCase[k] = c]]

LowerChar(c) == IF c \in DOMAIN LowerOf THEN LowerOf[c] ELSE c

\* str.lower(), computed by halves
RECURSIVE Lower(_)
Lower(s) ==
    IF s = "" THEN ""
    ELSE IF Len(s) = 1 THEN LowerChar(s)
    ELSE Lower(SubSeq(s, 1, Len(s) \div 2)) \o Lower(SubSeq(s, Len(s) \div 2 + 1, Len(s)))

\* kw in s
Contains(s, kw) ==
    \E i \in 1..(Len(s) - Len(kw) + 1) : SubSeq(s, i, i + Len(kw) - 1) = kw

\* a table cell is None or Str(s); Python's truth value of a cell or item value
Truthy(v) == v.t = "str" /\ v.s # ""

Roles == {"description", "product_code", "quantity", "unit", "unit_price", "tax",
          "amount", "discount"}

role_keywords ==
    [role \in Roles |->
        CASE role = "description" ->
               {"description", "item", "product", "service", "beskrivelse", "vare",
                "artikkel", "text"}
          [] role = "product_code" ->
               {"code", "sku", "item no", "art.nr", "varenr", "product code", "item code"}
          [] role = "quantity" ->
               {"qty", "quantity", "antall", "mengde", "antal", "pcs", "units"}
          [] role = "unit" -> {"unit", "uom", "enhet"}
          [] role = "unit_price" ->
               {"unit price", "price", "rate", "pris", "enhetspris", "à pris", "unit cost"}
          [] role = "tax" -> {"tax", "vat", "mva", "gst", "moms"}
          [] role = "amount" ->
               {"amount", "total", "sum", "beløp", "line total", "extended", "netto"}
          [] role = "discount" -> {"discount", "rabatt"}]

NumericRoles == {"quantity", "unit_price", "amount", "tax"}

\* any(kw in header for kw in keywords)
HeaderHasRole(header, role) == \E kw \in role_keywords[role] : Contains(header, kw)

\* the columns (0-based) whose header holds a keyword of the role
ColumnsOf(headers, role) == {c \in 0..(Len(headers) - 1) : HeaderHasRole(headers[c + 1], role)}

\* a slip in the inner loop, the break left out: the rightmost such column
LastColumn(headers, role) ==
    CHOOSE c \in ColumnsOf(headers, role) : \A d \in ColumnsOf(headers, role) : c >= d

\* the inner loop with its break: the leftmost such column
FirstColumn(headers, role) ==
    CHOOSE c \in ColumnsOf(headers, role) : \A d \in ColumnsOf(headers, role) : c <= d

\* a slip in the outer loop: a column given to one role is not given to a
\* later one; the roles in the order of the dict, -1 for a role without column
RoleOrder ==
    <<"description", "product_code", "quantity", "unit", "unit_price", "tax", "amount",
      "discount">>

RECURSIVE ExclusiveColumns(_, _)
ExclusiveColumns(headers, i) ==
    IF i = 0 THEN <<>>
    ELSE LET before == ExclusiveColumns(headers, i - 1)
             free == ColumnsOf(headers, RoleOrder[i]) \ {before[j] : j \in 1..Len(before)}
         IN  Append(before, IF free = {} THEN -1
                            ELSE CHOOSE c \in free : \A d \in free : c <= d)

MappedRolesExclusive(headers) ==
    LET cols == ExclusiveColumns(headers, Len(RoleOrder))
    IN  [role \in {RoleOrder[i] : i \in {j \in 1..Len(RoleOrder) : cols[j] # -1}} |->
            cols[CHOOSE i \in 1..Len(RoleOrder) : RoleOrder[i] = role]]

\* the role map before the acceptance test of lines 802-805
MappedRoles(headers) ==
    [role \in {r \in Roles : ColumnsOf(headers, r) # {}} |-> FirstColumn(headers, role)]

EmptyMap == [role \in {} |-> 0]

\* a slip in the acceptance test: the map is returned whatever it holds
_map_line_item_columns_unchecked(headers) == MappedRoles(headers)

_map_line_item_columns(headers) ==
    LET col_map == MappedRoles(headers)
    IN  IF "description" \in DOMAIN col_map \/ "amount" \in DOMAIN col_map
        THEN col_map
        ELSE EmptyMap

\* headers = [str(h).strip().lower() if h else "" for h in raw[0]]
HeaderText(h) == IF Truthy(h) THEN Lower(Strip(h.s)) ELSE ""

HeadersOf(row0) == [c \in 1..Len(row0) |-> HeaderText(row0[c])]

\* cell_value = str(row[col_idx]).strip() if row[col_idx] else ""
CellValue(row, col_idx) ==
    IF Truthy(row[col_idx + 1]) THEN Strip(row[col_idx + 1].s) ELSE ""

\* a slip in the numbering: enumerate without its start, rows count from 0
ItemOfZeroBased(row, row_idx, col_map) ==
    [k \in {"line_no"} \cup {role \in DOMAIN col_map : col_map[role] < Len(row)} |->
        IF k = "line_no" THEN row_idx - 1
        ELSE IF k \in NumericRoles THEN _normalize_amount(CellValue(row, col_map[k]))
        ELSE Str(CellValue(row, col_map[k]))]

\* the item built from one body row, lines 765-773
ItemOf(row, row_idx, col_map) ==
    [k \in {"line_no"} \cup {role \in DOMAIN col_map : col_map[role] < Len(row)} |->
        IF k = "line_no" THEN row_idx
        ELSE IF k \in NumericRoles THEN _normalize_amount(CellValue(row, col_map[k]))
        ELSE Str(CellValue(row, col_map[k]))]

\* a slip in the test of line 776: the key is there, whatever its value
ItemHasKey(item, key) == key \in DOMAIN item

\* item.get(key) is truthy
ItemHas(item, key) == key \in DOMAIN item /\ Truthy(item[key])

\* if not row or all(not cell for cell in row): continue
RowSkipped(row) == Len(row) = 0 \/ \A c \in 1..Len(row) : ~Truthy(row[c])

\* the items of the body rows row_idx.. of one table, lines 761-777
RECURSIVE ItemsFrom(_, _, _)
ItemsFrom(tbl, row_idx, col_map) ==
    IF row_idx + 1 > Len(tbl) THEN <<>>
    ELSE LET row == tbl[row_idx + 1]
             item == ItemOf(row, row_idx, col_map)
         IN  (IF ~RowSkipped(row) /\ (ItemHas(item, "description") \/ ItemHas(item, "amount"))
              THEN <<item>> ELSE <<>>)
             \o ItemsFrom(tbl, row_idx + 1, col_map)

\* a slip in the loop over the rows: the header row is read as a body row too
ItemsOfTableWithHeader(tbl) ==
    IF Len(tbl) < 2 THEN <<>>
    ELSE LET col_map == _map_line_item_columns(HeadersOf(tbl[1]))
         IN  IF DOMAIN col_map = {} THEN <<>> ELSE ItemsFrom(tbl, 0, col_map)

\* the items one table contributes, lines 750-777
ItemsOfTable(tbl) ==
    IF Len(tbl) < 2 THEN <<>>
    ELSE LET col_map == _map_line_item_columns(HeadersOf(tbl[1]))
         IN  IF DOMAIN col_map = {} THEN <<>> ELSE ItemsFrom(tbl, 1, col_map)

RECURSIVE _extract_line_items(_)
_extract_line_items(tables) ==
    IF tables = <<>> THEN <<>>
    ELSE ItemsOfTable(Head(tables)) \o _extract_line_items(Tail(tables))

(***************************************************************************)
(* ConfidenceAggregator                                                    *)
(* agg_result and the confidence of a result hold the value of the         *)
(* returned expression in exact arithmetic, the fraction num/den of        *)
(* hundredths; agg_double holds the double the interpreter computes.       *)
(***************************************************************************)
Fraction(n, d) == [num |-> n, den |-> d]

Zero == Fraction(0, 1)

\* the loop of lines 951-954 over the fields of the map
RECURSIVE WeightedSums(_, _, _)
WeightedSums(field_confidences, key_fields, fields) ==
    IF fields = {} THEN [weighted_sum |-> 0, total_weight |-> 0]
    ELSE LET field == CHOOSE f \in fields : TRUE
             rest == WeightedSums(field_confidences, key_fields, fields \ {field})
             weight == IF field \in key_fields THEN 2 ELSE 1
         IN  [weighted_sum |-> rest.weighted_sum + field_confidences[field] * weight,
              total_weight |-> rest.total_weight + weight]

\* a slip in the weights: every field counts once
RECURSIVE UnweightedSums(_, _, _)
UnweightedSums(field_confidences, key_fields, fields) ==
    IF fields = {} THEN [weighted_sum |-> 0, total_weight |-> 0]
    ELSE LET field == CHOOSE f \in fields : TRUE
             rest == UnweightedSums(field_confidences, key_fields, fields \ {field})
         IN  [weighted_sum |-> rest.weighted_sum + field_confidences[field],
              total_weight |-> rest.total_weight + 1]

_calculate_unweighted_confidence(field_confidences, key_fields) ==
    IF DOMAIN field_confidences = {} THEN Zero
    ELSE LET sums == UnweightedSums(field_confidences, key_fields, DOMAIN field_confidences)
         IN  IF sums.total_weight > 0
             THEN Fraction(sums.weighted_sum, sums.total_weight)
             ELSE Zero

_calculate_weighted_confidence(field_confidences, key_fields) ==
    IF DOMAIN field_confidences = {} THEN Zero
    ELSE LET sums == WeightedSums(field_confidences, key_fields, DOMAIN field_confidences)
         IN  IF sums.total_weight > 0
             THEN Fraction(sums.weighted_sum, sums.total_weight)
             ELSE Zero

\* round(x, 2) of the fraction x of hundredths: the nearest hundredth, a tie to even
Round2(x) ==
    LET q == x.num \div x.den
        r == x.num % x.den
    IN  IF 2 * r > x.den \/ (2 * r = x.den /\ q % 2 = 1) THEN q + 1 ELSE q

\* x < c for a fraction x and hundredths c
FractionBelow(x, c) == x.num < c * x.den

(***************************************************************************)
(* The aggregator in the interpreter's arithmetic (IEEE-754 binary64)      *)
(* A double is zero or [m, e]: 53 mantissa bits, the first one 1, worth    *)
(* m * 2^e.  Every operation rounds to nearest, a tie to the even mantissa.*)
(* The confidences met are between 0 and 1 and the weights small whole     *)
(* numbers, so no operation overflows or leaves the normal range.          *)
(***************************************************************************)
MantissaBits == 53

Double(m, e) == [m |-> m, e |-> e]

DoubleZero == Double(<<>>, 0)

Zeros(n) == [i \in 1..n |-> 0]

\* the bits of a natural number, the most significant first
RECURSIVE Binary(_)
Binary(n) == IF n = 0 THEN <<>> ELSE Append(Binary(n \div 2), n % 2)

\* a bit string without its leading zeros
StripZeros(bits) ==
    LET ones == {i \in 1..Len(bits) : bits[i] = 1}
    IN  IF ones = {} THEN <<>>
        ELSE SubSeq(bits, CHOOSE i \in ones : \A j \in ones : i <= j, Len(bits))

\* bits + 1 for a bit string that holds a zero: the last zero becomes one
\* and the ones after it zero
Increment(bits) ==
    LET zeros == {i \in 1..Len(bits) : bits[i] = 0}
        last == CHOOSE i \in zeros : \A j \in zeros : j <= i
    IN  [i \in 1..Len(bits) |-> IF i < last THEN bits[i] ELSE IF i = last THEN 1 ELSE 0]

\* the double nearest to bits * 2^e (+ a fraction of the last bit if sticky)
RoundToDouble(bits, e, sticky) ==
    LET sig == StripZeros(bits)
        n == Len(sig)
    IN  IF n = 0 THEN DoubleZero
        ELSE IF n <= MantissaBits
        THEN Double(sig \o Zeros(MantissaBits - n), e - (MantissaBits - n))
        ELSE LET kept == SubSeq(sig, 1, MantissaBits)
                 guard == sig[MantissaBits + 1]
                 rest == sticky \/ \E i \in (MantissaBits + 2)..n : sig[i] = 1
                 up == guard = 1 /\ (rest \/ kept[MantissaBits] = 1)
                 shift == n - MantissaBits
             IN  IF ~up THEN Double(kept, e + shift)
                 ELSE IF \A i \in 1..MantissaBits : kept[i] = 1
                 THEN Double(<<1>> \o Zeros(MantissaBits - 1), e + shift + 1)
                 ELSE Double(Increment(kept), e + shift)

\* long division of bits lo..hi by a small positive integer w, entered
\* with remainder r: the quotient bits and the remainder left
RECURSIVE LongDivide(_, _, _, _, _)
LongDivide(bits, w, lo, hi, r) ==
    IF lo > hi THEN [q |-> <<>>, r |-> r]
    ELSE IF lo = hi
    THEN LET n == 2 * r + bits[lo]
             q == IF n >= w THEN 1 ELSE 0
         IN  [q |-> <<q>>, r |-> n - w * q]
    ELSE LET mid == (lo + hi) \div 2
             left == LongDivide(bits, w, lo, mid, r)
         IN  \* the left half is divided before the right half starts
             IF left.r < w
             THEN LET right == LongDivide(bits, w, mid + 1, hi, left.r)
                  IN  [q |-> left.q \o right.q, r |-> right.r]
             ELSE left

\* the double nearest to bits * 2^e / w
Quotient(bits, e, w, extra) ==
    LET d == LongDivide(bits \o Zeros(extra), w, 1, Len(bits) + extra, 0)
    IN  RoundToDouble(d.q, e - extra, d.r # 0)

\* the double of a literal of hundredths, such as 0.85
DoubleOfHundredths(c) == Quotient(Binary(c), 0, 100, 64)

\* x * 2.0 and x * 1.0 are exact
DoubleTimes(x, weight) ==
    IF x = DoubleZero THEN DoubleZero
    ELSE Double(x.m, x.e + (IF weight = 2 THEN 1 ELSE 0))

\* the sum of bits lo..hi of two bit strings and a carry: the sum bits and
\* the carry out
RECURSIVE SumBits(_, _, _, _, _)
SumBits(a, b, lo, hi, carry) ==
    IF lo > hi THEN [s |-> <<>>, c |-> carry]
    ELSE IF lo = hi
    THEN LET n == a[lo] + b[lo] + carry
         IN  [s |-> <<n % 2>>, c |-> n \div 2]
    ELSE LET mid == (lo + hi) \div 2
             right == SumBits(a, b, mid + 1, hi, carry)
         IN  \* the right half is summed before the left half starts
             IF right.c <= 1
             THEN LET left == SumBits(a, b, lo, mid, right.c)
                  IN  [s |-> left.s \o right.s, c |-> left.c]
             ELSE right

DoublePlus(x, y) ==
    IF x = DoubleZero THEN y
    ELSE IF y = DoubleZero THEN x
    ELSE LET e == IF x.e < y.e THEN x.e ELSE y.e
             a == x.m \o Zeros(x.e - e)
             b == y.m \o Zeros(y.e - e)
             n == IF Len(a) > Len(b) THEN Len(a) ELSE Len(b)
             pa == Zeros(n - Len(a)) \o a
             pb == Zeros(n - Len(b)) \o b
             sum == SumBits(pa, pb, 1, n, 0)
         IN  RoundToDouble(<<sum.c>> \o sum.s, e, FALSE)

\* x / total_weight, the total weight a small whole number
DoubleOver(x, w) ==
    IF x = DoubleZero THEN DoubleZero ELSE Quotient(x.m, x.e, w, 8)

\* the loop of lines 951-954 in floating point, over the fields in the
\* order the dict holds them
RECURSIVE DoubleSums(_, _, _, _)
DoubleSums(field_confidences, key_fields, order, i) ==
    IF i = 0 THEN [weighted_sum |-> DoubleZero, total_weight |-> 0]
    ELSE LET sums == DoubleSums(field_confidences, key_fields, order, i - 1)
             weight == IF order[i] \in key_fields THEN 2 ELSE 1
         IN  [weighted_sum |->
                  DoublePlus(sums.weighted_sum,
                             DoubleTimes(DoubleOfHundredths(field_confidences[order[i]]), weight)),
              total_weight |-> sums.total_weight + weight]

\* _calculate_weighted_confidence as the interpreter evaluates it; order lists
\* the keys of the dict in its iteration order
WeightedConfidenceDouble(field_confidences, key_fields, order) ==
    IF order = <<>> THEN DoubleZero
    ELSE LET sums == DoubleSums(field_confidences, key_fields, order, Len(order))
         IN  IF sums.total_weight > 0
             THEN DoubleOver(sums.weighted_sum, sums.total_weight)
             ELSE DoubleZero

(***************************************************************************)
(* Document text                                                           *)
(* A text is [str, hits]: the string, and the matches ("hits") of the      *)
(* code's regular expressions in it, in text order.  A hit [p, k, v] says  *)
(* that pattern k of pattern family p matches with capture groups v; for   *)
(* re.search it is the leftmost match, for re.findall v lists every match. *)
(* A window hit with v = <<>> says the label occurs with nothing after it. *)
(* The hits of a page are those of its text followed by "\n", computed     *)
(* with the patterns of the source (the tax-id pattern as the f-string of  *)
(* line 671 builds it).  The hits of a document are the hits of its pages  *)
(* in order: the sample pages are written so that no match starts on one   *)
(* page and ends on the next, up to the whitespace the code strips.        *)
(***************************************************************************)
Text(str, hits) == [str |-> str, hits |-> hits]

\* all_text += text + "\n"
AppendPage(all_text, text) ==
    Text(all_text.str \o text.str \o "\n", all_text.hits \o text.hits)

HitsOf(text, p, k) == {i \in 1..Len(text.hits) : text.hits[i].p = p /\ text.hits[i].k = k}

HasHit(text, p, k) == HitsOf(text, p, k) # {}

\* re.search: the leftmost match of the pattern
FirstHit(text, p, k) ==
    text.hits[CHOOSE i \in HitsOf(text, p, k) : \A j \in HitsOf(text, p, k) : i <= j]

\* the matches of the hits at the indexes ix, in text order
RECURSIVE MatchesAt(_, _)
MatchesAt(text, ix) ==
    IF ix = {} THEN <<>>
    ELSE LET i == CHOOSE m \in ix : \A j \in ix : m <= j
         IN  text.hits[i].v \o MatchesAt(text, ix \ {i})

\* re.findall: every match of the pattern, in text order
AllMatches(text, p, k) == MatchesAt(text, HitsOf(text, p, k))

\* str.rstrip(".")
RECURSIVE RStripDots(_)
RStripDots(s) ==
    IF Len(s) > 0 /\ Ch(s, Len(s)) = "." THEN RStripDots(SubSeq(s, 1, Len(s) - 1)) ELSE s

\* lines[0] of text.split("\n")
FirstLine(s) ==
    LET breaks == {i \in 1..Len(s) : Ch(s, i) = "\n"}
    IN  IF breaks = {} THEN s
        ELSE SubSeq(s, 1, (CHOOSE i \in breaks : \A j \in breaks : i <= j) - 1)

\* the positions at which sub occurs in s
Occurrences(s, sub) ==
    {i \in 1..(Len(s) - Len(sub) + 1) : SubSeq(s, i, i + Len(sub) - 1) = sub}

\* \w, on the characters the model's texts hold
WordChars ==
    Digits \cup {"_"} \cup {UpperCase[i] : i \in 1..Len(UpperCase)}
           \cup {LowerCase[i] : i \in 1..Len(LowerCase)}

\* \b<word>\b at position i of s
WordAt(s, word, i) ==
    /\ i + Len(word) - 1 <= Len(s)
    /\ SubSeq(s, i, i + Len(word) - 1) = word
    /\ (i = 1 \/ Ch(s, i - 1) \notin WordChars)
    /\ (i + Len(word) > Len(s) \/ Ch(s, i + Len(word)) \notin WordChars)

(***************************************************************************)
(* Field extraction primitives: each returns [value, confidence]           *)
(***************************************************************************)
Found(value, confidence) == [value |-> value, confidence |-> confidence]

NotFound == Found(None, 0)

InvoiceNumberConfidence == <<95, 90, 85, 70>>

RECURSIVE InvoiceNumberFrom(_, _)
InvoiceNumberFrom(text, i) ==
    IF i > Len(InvoiceNumberConfidence) THEN NotFound
    ELSE IF HasHit(text, "invoice_number", ToString(i))
    THEN LET value == Strip(FirstHit(text, "invoice_number", ToString(i)).v[1])
         IN  IF Len(value) >= 2 /\ Lower(value) \notin {"date", "to", "from", "number"}
             THEN Found(Str(value), InvoiceNumberConfidence[i])
             ELSE InvoiceNumberFrom(text, i + 1)
    ELSE InvoiceNumberFrom(text, i + 1)

_extract_invoice_number(text) == InvoiceNumberFrom(text, 1)

\* DATE_PATTERNS, in the order of the list; the match facts of a text name a
\* pattern by its position
DATE_PATTERNS == <<"ISO", "European", "textual month", "compact">>

\* the key of the fact "label : <date of the j-th pattern>" matches
DirectKey(label, j) == label \o "/" \o ToString(j)

\* the loop over the patterns for the 100 characters from the label on, lines
\* 577-580; nearby holds the match of each pattern there, "" for none
RECURSIVE WindowShapeFrom(_, _)
WindowShapeFrom(nearby, j) ==
    IF j > Len(DATE_PATTERNS) THEN NotFound
    ELSE IF nearby[j] # "" THEN Found(Str(Strip(nearby[j])), 70)
    ELSE WindowShapeFrom(nearby, j + 1)

\* the fallback loop of lines 573-580
RECURSIVE DateWindowFrom(_, _, _)
DateWindowFrom(text, labels, i) ==
    IF i > Len(labels) THEN NotFound
    ELSE LET found == IF HasHit(text, "date_window", labels[i])
                      THEN WindowShapeFrom(FirstHit(text, "date_window", labels[i]).v, 1)
                      ELSE NotFound
         IN  IF found # NotFound THEN found
             ELSE DateWindowFrom(text, labels, i + 1)

\* the loop over the patterns for one label, lines 566-570
RECURSIVE DirectShapeFrom(_, _, _)
DirectShapeFrom(text, label, j) ==
    IF j > Len(DATE_PATTERNS) THEN NotFound
    ELSE IF HasHit(text, "date_direct", DirectKey(label, j))
    THEN Found(Str(Strip(FirstHit(text, "date_direct", DirectKey(label, j)).v[1])), 90)
    ELSE DirectShapeFrom(text, label, j + 1)

\* the direct loop of lines 564-570, then the fallback
RECURSIVE DateDirectFrom(_, _, _)
DateDirectFrom(text, labels, i) ==
    IF i > Len(labels) THEN DateWindowFrom(text, labels, 1)
    ELSE LET found == DirectShapeFrom(text, labels[i], 1)
         IN  IF found # NotFound THEN found
             ELSE DateDirectFrom(text, labels, i + 1)

\* a slip in the order of the loops: each label is tried directly and then in
\* its window before the next label is looked at
RECURSIVE _extract_labeled_date_label_by_label(_, _)
_extract_labeled_date_label_by_label(text, labels) ==
    IF labels = <<>> THEN NotFound
    ELSE LET direct == DirectShapeFrom(text, Head(labels), 1)
             window == DateWindowFrom(text, <<Head(labels)>>, 1)
         IN  IF direct # NotFound THEN direct
             ELSE IF window # NotFound THEN window
             ELSE _extract_labeled_date_label_by_label(text, Tail(labels))

_extract_labeled_date(text, labels) == DateDirectFrom(text, labels, 1)

\* n characters of s from position p on are digits
DigitsAt(s, p, n) == p + n - 1 <= Len(s) /\ \A i \in p..(p + n - 1) : IsDigit(Ch(s, i))

\* (?:[,.\s]?\d{3})* from position p on: the position after the last group.
\* A separator is taken when three digits follow it; nothing after the
\* groups is required, so the first, greedy, match of each group stands.
RECURSIVE ThousandsFrom(_, _)
ThousandsFrom(s, p) ==
    IF p <= Len(s) /\ (Ch(s, p) \in {",", "."} \/ IsSpace(Ch(s, p))) /\ DigitsAt(s, p + 1, 3)
    THEN ThousandsFrom(s, p + 4)
    ELSE IF DigitsAt(s, p, 3) THEN ThousandsFrom(s, p + 3)
    ELSE p

\* (?:[.,]\d{1,2})? at position p: the position after it
DecimalsFrom(s, p) ==
    IF p <= Len(s) /\ Ch(s, p) \in {",", "."} /\ DigitsAt(s, p + 1, 1)
    THEN IF DigitsAt(s, p + 1, 2) THEN p + 3 ELSE p + 2
    ELSE p

\* a slip in the capture group: every leading digit is taken, ([\d]+...)
AmountCaptureAllDigits(s) ==
    LET lead == CHOOSE n \in 0..Len(s) :
                    /\ DigitsAt(s, 1, n)
                    /\ ~DigitsAt(s, 1, n + 1)
    IN  IF lead = 0 THEN ""
        ELSE SubSeq(s, 1, DecimalsFrom(s, ThousandsFrom(s, lead + 1)) - 1)

\* the group ([\d]{1,3}(?:[,.\s]?\d{3})*(?:[.,]\d{1,2})?) of line 592 matched
\* at the start of s: up to three digits, groups of three, decimals; "" when s
\* does not start with a digit
AmountCapture(s) ==
    LET lead == CHOOSE n \in 0..3 :
                    /\ DigitsAt(s, 1, n)
                    /\ (n = 3 \/ ~DigitsAt(s, 1, n + 1))
    IN  IF lead = 0 THEN ""
        ELSE SubSeq(s, 1, DecimalsFrom(s, ThousandsFrom(s, lead + 1)) - 1)

\* the text "<label>: <amount>" with the facts of the direct pattern of lines
\* 589-594 in it: the pattern of a listed label matches where the label
\* stands before the colon, and captures from the start of the amount.  The
\* amounts start with a digit, so the pattern matches and the window of lines
\* 602-613 is not reached.
IsSuffix(sub, s) == Len(sub) <= Len(s) /\ SubSeq(s, Len(s) - Len(sub) + 1, Len(s)) = sub

LabeledAmountText(label, amount, labels) ==
    Text(label \o ": " \o amount,
         SelectSeq([i \in 1..Len(labels) |->
                       [p |-> "amount_direct", k |-> labels[i], v |-> <<AmountCapture(amount)>>]],
                   LAMBDA hit : IsSuffix(hit.k, label) /\ AmountCapture(amount) # ""))

\* the fallback loop of lines 602-613: the last amount of the window
RECURSIVE AmountWindowFrom(_, _, _)
AmountWindowFrom(text, labels, i) ==
    IF i > Len(labels) THEN NotFound
    ELSE LET amounts == IF HasHit(text, "amount_window", labels[i])
                        THEN FirstHit(text, "amount_window", labels[i]).v
                        ELSE <<>>
             nrm == IF amounts = <<>> THEN None
                    ELSE _normalize_amount(amounts[Len(amounts)])
         IN  IF Truthy(nrm) THEN Found(nrm, 65)
             ELSE AmountWindowFrom(text, labels, i + 1)

\* the direct loop of lines 587-599, then the fallback
RECURSIVE AmountDirectFrom(_, _, _)
AmountDirectFrom(text, labels, i) ==
    IF i > Len(labels) THEN AmountWindowFrom(text, labels, 1)
    ELSE LET nrm == IF HasHit(text, "amount_direct", labels[i])
                    THEN _normalize_amount(Strip(FirstHit(text, "amount_direct", labels[i]).v[1]))
                    ELSE None
         IN  IF Truthy(nrm) THEN Found(nrm, 90)
             ELSE AmountDirectFrom(text, labels, i + 1)

_extract_labeled_amount(text, labels) == AmountDirectFrom(text, labels, 1)

RECURSIVE LabeledValueFrom(_, _, _)
LabeledValueFrom(text, labels, i) ==
    IF i > Len(labels) THEN NotFound
    ELSE LET value == IF HasHit(text, "value", labels[i])
                      THEN RStripDots(Strip(FirstHit(text, "value", labels[i]).v[1]))
                      ELSE ""
         IN  IF value # "" /\ Len(value) > 1 THEN Found(Str(value), 80)
             ELSE LabeledValueFrom(text, labels, i + 1)

_extract_labeled_value(text, labels) == LabeledValueFrom(text, labels, 1)

LegalSuffixes == {"as", "a/s", "ltd", "llc", "inc", "gmbh", "ab", "oy", "aps"}

\* the legal suffix the name ends with, matched ignoring case
SuffixesOf(name) ==
    {x \in LegalSuffixes :
        Len(name) >= Len(x) /\ Lower(SubSeq(name, Len(name) - Len(x) + 1, Len(name))) = x}

\* re.sub(r"\s*(AS|A/S|Ltd|LLC|Inc|GmbH|AB|Oy|ApS)\s*$", r" \1", name) on a stripped
\* name: the whitespace before the suffix becomes one space
NormalizeSuffix(name) ==
    IF SuffixesOf(name) = {} THEN name
    ELSE LET x == CHOOSE y \in SuffixesOf(name) : TRUE
             e == Len(name) - Len(x) + 1
         IN  SubSeq(name, 1, PrevNonSpace(name, e - 1)) \o " " \o SubSeq(name, e, Len(name))

\* the heuristic of lines 644-649: the first line of the text
FirstLineGuess(text) ==
    LET first_line == Strip(FirstLine(text.str))
    IN  IF Len(first_line) > 2 /\ ~IsDigit(Ch(first_line, 1)) /\ Len(first_line) < 60
        THEN Found(Str(first_line), 50)
        ELSE NotFound

RECURSIVE EntityNameFrom(_, _, _)
EntityNameFrom(text, labels, i) ==
    IF i > Len(labels) THEN FirstLineGuess(text)
    ELSE LET name == IF HasHit(text, "entity", labels[i])
                     THEN NormalizeSuffix(Strip(FirstHit(text, "entity", labels[i]).v[1]))
                     ELSE ""
         IN  IF name # "" /\ Len(name) > 1 /\ ~AllDigits(name)
             THEN Found(Str(Strip(name)), 85)
             ELSE EntityNameFrom(text, labels, i + 1)

_extract_entity_name(text, labels) == EntityNameFrom(text, labels, 1)

_extract_address(text, entity_type) ==
    IF HasHit(text, "address", "1")
    THEN Found(Str(Strip(FirstHit(text, "address", "1").v[1])), 60)
    ELSE NotFound

RECURSIVE TaxIdFrom(_, _, _)
TaxIdFrom(text, labels, i) ==
    IF i > Len(labels) THEN NotFound
    ELSE IF HasHit(text, "tax_id", labels[i])
    THEN Found(Str(Strip(FirstHit(text, "tax_id", labels[i]).v[1])), 90)
    ELSE TaxIdFrom(text, labels, i + 1)

_extract_tax_id(text, labels) == TaxIdFrom(text, labels, 1)

_extract_tax_rate(text) ==
    IF HasHit(text, "tax_rate", "1")
    THEN Found(Str(Replace(FirstHit(text, "tax_rate", "1").v[1], ",", ".") \o "%"), 85)
    ELSE IF HasHit(text, "tax_rate", "2")
    THEN Found(Str(Replace(FirstHit(text, "tax_rate", "2").v[1], ",", ".") \o "%"), 85)
    ELSE NotFound

\* the loop over a list of (pattern, confidence): the first pattern that matches
RECURSIVE FirstPatternFrom(_, _, _, _)
FirstPatternFrom(text, p, confidences, i) ==
    IF i > Len(confidences) THEN NotFound
    ELSE IF HasHit(text, p, ToString(i))
    THEN Found(Str(Strip(FirstHit(text, p, ToString(i)).v[1])), confidences[i])
    ELSE FirstPatternFrom(text, p, confidences, i + 1)

PaymentTermsConfidence == <<90, 85, 80, 75>>

_extract_payment_terms(text) == FirstPatternFrom(text, "payment_terms", PaymentTermsConfidence, 1)

BankInfoConfidence == <<95, 80, 90>>

\* a slip in the loop: of the patterns that match, the most confident one wins
_extract_bank_info_most_confident(text) ==
    LET matching == {i \in 1..Len(BankInfoConfidence) : HasHit(text, "bank", ToString(i))}
    IN  IF matching = {} THEN NotFound
        ELSE LET best == CHOOSE i \in matching :
                             \A j \in matching : BankInfoConfidence[j] <= BankInfoConfidence[i]
             IN  Found(Str(Strip(FirstHit(text, "bank", ToString(best)).v[1])),
                       BankInfoConfidence[best])

_extract_bank_info(text) == FirstPatternFrom(text, "bank", BankInfoConfidence, 1)


\* CURRENCY_SYMBOLS, in the order of the dict; a character outside Latin-1 is
\* written as its code point, which no text of the model holds
CURRENCY_SYMBOLS ==
    <<<<"$", "USD">>, <<"\\u20ac", "EUR">>, <<"£", "GBP">>, <<"kr", "NOK">>, <<"SEK", "SEK">>,
      <<"DKK", "DKK">>, <<"CHF", "CHF">>, <<"¥", "JPY">>, <<"\\u20b9", "INR">>, <<"R$", "BRL">>,
      <<"A$", "AUD">>, <<"C$", "CAD">>, <<"z\\u0142", "PLN">>, <<"K\\u010d", "CZK">>>>

CurrencyCodes == <<"NOK", "USD", "EUR", "GBP", "SEK", "DKK", "CHF">>

\* text.lower().count(symbol.lower()), for each symbol of CURRENCY_SYMBOLS
SymbolCounts(lowered) ==
    [i \in 1..Len(CURRENCY_SYMBOLS) |->
        Cardinality(Occurrences(lowered, Lower(CURRENCY_SYMBOLS[i][1])))]

\* len(re.findall(rf"\b{code}\b", text, re.IGNORECASE)), for each code
CodeCounts(lowered) ==
    [i \in 1..Len(CurrencyCodes) |->
        Cardinality({j \in 1..Len(lowered) : WordAt(lowered, Lower(CurrencyCodes[i]), j)})]

\* the number of matches counted under a code by a list of (name, code) counts
CountUnder(code, names, counts) ==
    LET ix == {i \in 1..Len(names) : names[i] = code}
    IN  IF ix = {} THEN 0 ELSE counts[CHOOSE i \in ix : TRUE]

\* the codes with a positive count, in the order in which the loop meets them
RECURSIVE CountedFrom(_, _, _)
CountedFrom(names, counts, i) ==
    IF i > Len(names) THEN <<>>
    ELSE (IF counts[i] > 0 THEN <<names[i]>> ELSE <<>>) \o CountedFrom(names, counts, i + 1)

RECURSIVE Without(_, _)
Without(codes, seen) ==
    IF codes = <<>> THEN <<>>
    ELSE (IF \E i \in 1..Len(seen) : seen[i] = Head(codes) THEN <<>> ELSE <<Head(codes)>>)
         \o Without(Tail(codes), seen)

_detect_currency(text) ==
    LET lowered == Lower(text.str)
        symbol_codes == [i \in 1..Len(CURRENCY_SYMBOLS) |-> CURRENCY_SYMBOLS[i][2]]
        symbol_counts == SymbolCounts(lowered)
        code_counts == CodeCounts(lowered)
        by_symbol == CountedFrom(symbol_codes, symbol_counts, 1)
        keys == by_symbol \o Without(CountedFrom(CurrencyCodes, code_counts, 1), by_symbol)
        currency_counts ==
            [i \in 1..Len(keys) |->
                CountUnder(keys[i], symbol_codes, symbol_counts)
                + CountUnder(keys[i], CurrencyCodes, code_counts)]
    IN  IF keys = <<>> THEN NotFound
        ELSE LET best == CHOOSE i \in 1..Len(keys) :
                            /\ \A j \in 1..Len(keys) : currency_counts[j] <= currency_counts[i]
                            /\ \A j \in 1..(i - 1) : currency_counts[j] < currency_counts[i]
             IN  Found(Str(keys[best]), 85)

(***************************************************************************)
(* Contract helpers                                                        *)
(***************************************************************************)
\* [m.strip() for m in matches[:2]]
FirstTwoStripped(matches) ==
    [i \in 1..(IF Len(matches) < 2 THEN Len(matches) ELSE 2) |-> Strip(matches[i])]

\* a slip in the confidences: those of the two patterns exchanged
_extract_contract_parties_swapped(text) ==
    IF HasHit(text, "parties_between", "1")
    THEN LET m == FirstHit(text, "parties_between", "1").v
         IN  Found(List(<<Strip(m[1]), Strip(m[2])>>), 85)
    ELSE IF AllMatches(text, "parties_labeled", "1") # <<>>
    THEN Found(List(FirstTwoStripped(AllMatches(text, "parties_labeled", "1"))), 90)
    ELSE Found(List(<<>>), 0)

\* a slip in the order: the labeled pattern is tried before "between"
_extract_contract_parties_labeled_first(text) ==
    IF AllMatches(text, "parties_labeled", "1") # <<>>
    THEN Found(List(FirstTwoStripped(AllMatches(text, "parties_labeled", "1"))), 85)
    ELSE IF HasHit(text, "parties_between", "1")
    THEN LET m == FirstHit(text, "parties_between", "1").v
         IN  Found(List(<<Strip(m[1]), Strip(m[2])>>), 90)
    ELSE Found(List(<<>>), 0)

_extract_contract_parties(text) ==
    IF HasHit(text, "parties_between", "1")
    THEN LET m == FirstHit(text, "parties_between", "1").v
         IN  Found(List(<<Strip(m[1]), Strip(m[2])>>), 90)
    ELSE IF AllMatches(text, "parties_labeled", "1") # <<>>
    THEN Found(List(FirstTwoStripped(AllMatches(text, "parties_labeled", "1"))), 85)
    ELSE Found(List(<<>>), 0)

\* type_keywords, in the order of the dict
ContractTypes ==
    <<<<"Service Agreement", {"service agreement", "service contract", "tjenesteavtale"}>>,
      <<"Employment Contract", {"employment", "ansettelse", "arbeidsavtale", "employment agreement"}>>,
      <<"NDA", {"non-disclosure", "confidentiality agreement", "nda", "konfidensialitetsavtale"}>>,
      <<"Sales Agreement", {"sales agreement", "purchase agreement", "kjøpsavtale"}>>,
      <<"Lease Agreement", {"lease", "rental", "leieavtale", "husleie"}>>,
      <<"Partnership Agreement", {"partnership", "joint venture", "samarbeidsavtale"}>>,
      <<"Supply Agreement", {"supply agreement", "leveranseavtale", "transportation"}>>,
      <<"Consulting Agreement", {"consulting", "advisory", "konsulentavtale", "rådgivning"}>>>>

HasAny(lowered, keywords) == \E kw \in keywords : Contains(lowered, kw)

RECURSIVE ContractTypeFrom(_, _)
ContractTypeFrom(text_lower, i) ==
    IF i > Len(ContractTypes) THEN Found(Str("General Contract"), 50)
    ELSE IF HasAny(text_lower, ContractTypes[i][2]) THEN Found(Str(ContractTypes[i][1]), 85)
    ELSE ContractTypeFrom(text_lower, i + 1)

_detect_contract_type(text) == ContractTypeFrom(Lower(text.str), 1)

RECURSIVE ClauseFrom(_, _, _)
ClauseFrom(text, labels, i) ==
    IF i > Len(labels) THEN NotFound
    ELSE IF HasHit(text, "clause", labels[i])
    THEN LET clause == Strip(FirstHit(text, "clause", labels[i]).v[1])
         IN  Found(Str(IF Len(clause) > 200 THEN SubSeq(clause, 1, 200) \o "..." ELSE clause), 75)
    ELSE ClauseFrom(text, labels, i + 1)

_extract_clause(text, labels) == ClauseFrom(text, labels, 1)

(***************************************************************************)
(* Financial statement helpers                                             *)
(***************************************************************************)
_detect_statement_type(text) ==
    LET text_lower == Lower(text.str)
    IN  IF HasAny(text_lower, {"balance sheet", "balanse", "assets and liabilities"})
        THEN "Balance Sheet"
        ELSE IF HasAny(text_lower, {"income statement", "profit and loss", "p&l", "resultat"})
        THEN "Income Statement"
        ELSE IF HasAny(text_lower, {"cash flow", "kontantstrøm"})
        THEN "Cash Flow Statement"
        ELSE "Financial Statement"

_extract_period(text) ==
    IF HasHit(text, "period", "1") THEN Str(Strip(FirstHit(text, "period", "1").v[1]))
    ELSE IF HasHit(text, "period", "2") THEN Str(Strip(FirstHit(text, "period", "2").v[1]))
    ELSE None

\* the items of the lines that hold a label, a gap and a number
RECURSIVE StatementItemsAt(_, _)
StatementItemsAt(text, ix) ==
    IF ix = {} THEN <<>>
    ELSE LET i == CHOOSE m \in ix : \A j \in ix : m <= j
         IN  <<[label |-> Str(Strip(text.hits[i].v[1])),
                value |-> _normalize_amount(text.hits[i].v[2])]>>
             \o StatementItemsAt(text, ix \ {i})

\* the dict returned, as a record, or the empty dict as the empty function
_extract_statement_from_text(text) ==
    LET items == StatementItemsAt(text, HitsOf(text, "statement_line", "1"))
    IN  IF items # <<>> THEN [items |-> items, item_count |-> Len(items)]
        ELSE EmptyMap

(***************************************************************************)
(* The document reader (pdfplumber), as the extractors see it              *)
(* A pdf is [opens, pages]; a page is [text, tables, fails]: the value of  *)
(* extract_text() (None or a text), the value of extract_tables(), and the *)
(* call of the page that raises ("none", "text", "tables").                *)
(***************************************************************************)
Page(text, tables, fails) == [text |-> text, tables |-> tables, fails |-> fails]

OpenError == "cannot open PDF"
TextError(page_num) == "extract_text failed on page " \o ToString(page_num)
TablesError(page_num) == "extract_tables failed on page " \o ToString(page_num)

\* an exception that leaves the try block, or the value the block returns
Raise(msg) == [t |-> "raise", msg |-> msg]
Return(value) == [t |-> "return", value |-> value]

_error_result(error_msg) ==
    [t |-> "result",
     success |-> FALSE,
     data |-> EmptyMap,
     confidence |-> 0,
     field_confidences |-> EmptyMap,
     error |-> Str(error_msg),
     warnings |-> <<>>,
     requires_review |-> FALSE]

\* a try block without its except clause: the exception reaches the caller
Uncaught(outcome) ==
    IF outcome.t = "raise" THEN [t |-> "raised", error |-> Str(outcome.msg)] ELSE outcome.value

\* try: ... except Exception as exc: return _error_result(str(exc), start_time)
Caught(outcome) ==
    IF outcome.t = "raise" THEN _error_result(outcome.msg) ELSE outcome.value

\* the tables of one page that pass `if table and len(table) > 1`
RECURSIVE KeptTablesFrom(_, _, _)
KeptTablesFrom(tables, page_num, t_idx) ==
    IF t_idx + 1 > Len(tables) THEN <<>>
    ELSE (IF Len(tables[t_idx + 1]) > 1
          THEN <<[page |-> page_num, table_index |-> t_idx, raw |-> tables[t_idx + 1]]>>
          ELSE <<>>)
         \o KeptTablesFrom(tables, page_num, t_idx + 1)

NothingRead == [error |-> None, all_text |-> Text("", <<>>), all_tables |-> <<>>, page_texts |-> <<>>]

\* the loop over pdf.pages: text = page.extract_text() or ""; all_text += text + "\n";
\* and, where the extractor reads tables, page.extract_tables()
RECURSIVE ReadFrom(_, _, _, _)
ReadFrom(pages, page_num, with_tables, acc) ==
    IF page_num > Len(pages) THEN acc
    ELSE LET page == pages[page_num]
         IN  IF page.fails = "text" THEN [acc EXCEPT !.error = Str(TextError(page_num))]
             ELSE LET text == IF page.text = None THEN Text("", <<>>) ELSE page.text
                      acc1 == [acc EXCEPT !.all_text = AppendPage(@, text),
                                          !.page_texts = Append(@, [page |-> page_num, text |-> text.str])]
                  IN  IF ~with_tables THEN ReadFrom(pages, page_num + 1, with_tables, acc1)
                      ELSE IF page.fails = "tables"
                      THEN [acc1 EXCEPT !.error = Str(TablesError(page_num))]
                      ELSE ReadFrom(pages, page_num + 1, with_tables,
                                    [acc1 EXCEPT !.all_tables = @ \o KeptTablesFrom(page.tables, page_num, 0)])

ReadPages(pages, with_tables) == ReadFrom(pages, 1, with_tables, NothingRead)

\* headers = [str(h).strip() if h else f"Col_{i}" for i, h in enumerate(table[0])]
FlatHeaders(row0) ==
    [c \in 1..Len(row0) |-> IF Truthy(row0[c]) THEN Strip(row0[c].s) ELSE "Col_" \o ToString(c - 1)]

\* key = headers[i] if i < len(headers) else f"Col_{i}"
FlatKey(headers, c) == IF c <= Len(headers) THEN headers[c] ELSE "Col_" \o ToString(c - 1)

\* row_dict: a later cell under the same key replaces an earlier one
FlatRow(row, headers) ==
    [key \in {FlatKey(headers, c) : c \in 1..Len(row)} |->
        LET last == CHOOSE c \in 1..Len(row) :
                       /\ FlatKey(headers, c) = key
                       /\ \A d \in 1..Len(row) : FlatKey(headers, d) = key => d <= c
        IN  IF Truthy(row[last]) THEN Strip(row[last].s) ELSE ""]

FlatRows(raw_table, headers) == [r \in 1..(Len(raw_table) - 1) |-> FlatRow(raw_table[r + 1], headers)]

\* the flattened table the invoice and generic extractors store
ParsedTable(table_info) ==
    LET headers == FlatHeaders(table_info.raw[1])
    IN  [page |-> table_info.page,
         headers |-> headers,
         rows |-> FlatRows(table_info.raw, headers),
         row_count |-> Len(table_info.raw) - 1]

\* the flattened table the statement extractor stores
StatementTable(table_info) ==
    LET headers == FlatHeaders(table_info.raw[1])
    IN  [page |-> table_info.page,
         table_index |-> table_info.table_index,
         headers |-> headers,
         rows |-> FlatRows(table_info.raw, headers),
         row_count |-> Len(table_info.raw) - 1,
         column_count |-> Len(headers)]

RawTables(kept) == [i \in 1..Len(kept) |-> kept[i].raw]

RECURSIVE TotalRows(_)
TotalRows(kept) ==
    IF kept = <<>> THEN 0 ELSE Len(Head(kept).raw) - 1 + TotalRows(Tail(kept))

(***************************************************************************)
(* Invoice extractor                                                       *)
(***************************************************************************)
\* the header-level fields of lines 150-215, each with its confidence
InvoiceFields(all_text) ==
    [invoice_number |-> _extract_invoice_number(all_text),
     invoice_date |-> _extract_labeled_date(all_text,
        <<"invoice date", "fakturadato", "date", "dato", "issued", "invoice">>),
     due_date |-> _extract_labeled_date(all_text,
        <<"due date", "forfallsdato", "payment due", "due", "forfall", "betalingsfrist">>),
     vendor_name |-> _extract_entity_name(all_text,
        <<"from", "vendor", "supplier", "seller", "fra", "leverandør", "selger">>),
     vendor_address |-> _extract_address(all_text, "vendor"),
     vendor_tax_id |-> _extract_tax_id(all_text,
        <<"org.nr", "org nr", "vat", "tax id", "ein", "gst", "mva">>),
     buyer_name |-> _extract_entity_name(all_text,
        <<"to", "bill to", "buyer", "customer", "client", "til", "kjøper", "kunde">>),
     buyer_address |-> _extract_address(all_text, "buyer"),
     buyer_tax_id |-> _extract_tax_id(all_text, <<"customer vat", "buyer tax", "kundens org">>),
     currency |-> _detect_currency(all_text),
     subtotal |-> _extract_labeled_amount(all_text,
        <<"subtotal", "sub total", "netto", "net amount", "sum before tax", "grunnlag">>),
     tax_amount |-> _extract_labeled_amount(all_text,
        <<"tax", "vat", "mva", "gst", "sales tax", "merverdiavgift", "moms">>),
     tax_rate |-> _extract_tax_rate(all_text),
     total_amount |-> _extract_labeled_amount(all_text,
        <<"total", "grand total", "amount due", "totalt", "sum", "balance due",
          "total amount", "invoice total", "å betale">>),
     amount_due |-> _extract_labeled_amount(all_text,
        <<"amount due", "balance due", "å betale", "til betaling", "outstanding">>),
     payment_terms |-> _extract_payment_terms(all_text),
     purchase_order |-> _extract_labeled_value(all_text,
        <<"po number", "purchase order", "po#", "p.o.", "bestillingsnr", "innkjøpsordre">>),
     reference |-> _extract_labeled_value(all_text,
        <<"reference", "ref", "referanse", "your ref", "vår ref", "our ref">>),
     bank_account |-> _extract_bank_info(all_text)]

ValuesOf(found) == [f \in DOMAIN found |-> found[f].value]
ConfidencesOf(found) == [f \in DOMAIN found |-> found[f].confidence]

\* not fields.get(name): the value is None, "" or []
Missing(fields, name) ==
    \/ name \notin DOMAIN fields
    \/ fields[name].t = "None"
    \/ (fields[name].t = "str" /\ fields[name].s = "")
    \/ (fields[name].t = "list" /\ fields[name].l = <<>>)

\* a slip in the order of the checks: the vendor's warning before the total's
_validate_invoice_fields_vendor_first(fields) ==
    (IF Missing(fields, "invoice_number") THEN <<"Invoice number not detected">> ELSE <<>>)
    \o (IF Missing(fields, "invoice_date") THEN <<"Invoice date not detected">> ELSE <<>>)
    \o (IF Missing(fields, "vendor_name") THEN <<"Vendor name not detected">> ELSE <<>>)
    \o (IF Missing(fields, "total_amount") THEN <<"Total amount not detected">> ELSE <<>>)
    \o (IF Missing(fields, "line_items")
        THEN <<"No line items found \\u2014 check if document has a table">> ELSE <<>>)

_validate_invoice_fields(fields) ==
    (IF Missing(fields, "invoice_number") THEN <<"Invoice number not detected">> ELSE <<>>)
    \o (IF Missing(fields, "invoice_date") THEN <<"Invoice date not detected">> ELSE <<>>)
    \o (IF Missing(fields, "total_amount") THEN <<"Total amount not detected">> ELSE <<>>)
    \o (IF Missing(fields, "vendor_name") THEN <<"Vendor name not detected">> ELSE <<>>)
    \o (IF Missing(fields, "line_items")
        THEN <<"No line items found \\u2014 check if document has a table">> ELSE <<>>)

InvoiceKeyFields == {"invoice_number", "invoice_date", "vendor_name", "total_amount"}

\* lines 149-261: the result for a document that was read and holds text
InvoiceResult(read, pages_processed) ==
    LET found == InvoiceFields(read.all_text)
        fields == ValuesOf(found)
                  @@ [line_items |-> List(_extract_line_items(RawTables(read.all_tables))),
                      tables |-> List([i \in 1..Len(read.all_tables) |-> ParsedTable(read.all_tables[i])]),
                      pages_processed |-> pages_processed]
        field_confidences == ConfidencesOf(found)
        overall_confidence == _calculate_weighted_confidence(field_confidences, InvoiceKeyFields)
    IN  [t |-> "result",
         success |-> TRUE,
         data |-> fields,
         confidence |-> Round2(overall_confidence),
         field_confidences |-> field_confidences,
         error |-> None,
         warnings |-> _validate_invoice_fields(fields),
         requires_review |-> FractionBelow(overall_confidence, 60)]

\* the body of the try block of extract_invoice_data_ml
InvoiceBody(pdf) ==
    IF ~pdf.opens THEN Raise(OpenError)
    ELSE LET read == ReadPages(pdf.pages, TRUE)
         IN  IF read.error # None THEN Raise(read.error.s)
             ELSE IF Strip(read.all_text.str) = ""
             THEN Return(_error_result("No text could be extracted from this PDF"))
             ELSE Return(InvoiceResult(read, Len(pdf.pages)))

extract_invoice_data_ml(pdf) == Caught(InvoiceBody(pdf))

(***************************************************************************)
(* Contract extractor                                                      *)
(***************************************************************************)
ContractFields(all_text) ==
    [parties |-> _extract_contract_parties(all_text),
     contract_type |-> _detect_contract_type(all_text),
     effective_date |-> _extract_labeled_date(all_text,
        <<"effective date", "commencement", "start date", "ikrafttredelse", "fra dato">>),
     expiration_date |-> _extract_labeled_date(all_text,
        <<"expiration", "termination", "end date", "expiry", "utløpsdato", "til dato">>),
     signing_date |-> _extract_labeled_date(all_text,
        <<"signed", "executed", "dated", "signature date", "signert">>),
     governing_law |-> _extract_labeled_value(all_text,
        <<"governing law", "jurisdiction", "applicable law", "lovvalg">>),
     payment_terms |-> _extract_payment_terms(all_text),
     termination_clause |-> _extract_clause(all_text, <<"termination", "oppsigelse">>),
     liability |-> _extract_clause(all_text, <<"liability", "ansvar", "indemnification">>),
     confidentiality |-> _extract_clause(all_text,
        <<"confidential", "konfidensialitet", "non-disclosure", "nda">>),
     contract_value |-> _extract_labeled_amount(all_text,
        <<"total value", "contract value", "amount", "consideration", "price", "pris">>),
     currency |-> _detect_currency(all_text)]

ContractKeyFields == {"parties", "effective_date", "contract_type"}

ContractResult(read, pages_processed) ==
    LET found == ContractFields(read.all_text)
        field_confidences == ConfidencesOf(found)
        overall_confidence == _calculate_weighted_confidence(field_confidences, ContractKeyFields)
    IN  [t |-> "result",
         success |-> TRUE,
         data |-> ValuesOf(found) @@ [pages_processed |-> pages_processed],
         confidence |-> Round2(overall_confidence),
         field_confidences |-> field_confidences,
         error |-> None,
         warnings |-> <<>>,
         requires_review |-> FractionBelow(overall_confidence, 60)]

ContractBody(pdf) ==
    IF ~pdf.opens THEN Raise(OpenError)
    ELSE LET read == ReadPages(pdf.pages, FALSE)
         IN  IF read.error # None THEN Raise(read.error.s)
             ELSE IF Strip(read.all_text.str) = ""
             THEN Return(_error_result("No text could be extracted"))
             ELSE Return(ContractResult(read, Len(pdf.pages)))

extract_contract_data_ml(pdf) == Caught(ContractBody(pdf))

(***************************************************************************)
(* Financial statement extractor                                           *)
(***************************************************************************)
\* a slip in the order of the labels: balance is tried before total
SummaryLabelsBalanceFirst == <<"balance", "total", "net income", "sum", "totalt", "resultat">>

SummaryLabels == <<"total", "net income", "balance", "sum", "totalt", "resultat">>

\* the loop of lines 415-419: the first label with an amount adds one field
RECURSIVE SummaryFrom(_, _)
SummaryFrom(all_text, i) ==
    IF i > Len(SummaryLabels) THEN EmptyMap
    ELSE LET amount == _extract_labeled_amount(all_text, <<SummaryLabels[i]>>).value
         IN  IF Truthy(amount)
             THEN [key \in {"summary_" \o Replace(SummaryLabels[i], " ", "_")} |-> amount]
             ELSE SummaryFrom(all_text, i + 1)

\* lines 387-402: no table was kept, the text layout is tried
StatementFromText(all_text) ==
    LET fields == _extract_statement_from_text(all_text)
    IN  IF DOMAIN fields # {}
        THEN [t |-> "result",
              success |-> TRUE,
              data |-> fields,
              confidence |-> 65,
              field_confidences |-> EmptyMap,
              error |-> None,
              warnings |-> <<"No tables detected - extracted from text layout">>,
              requires_review |-> TRUE]
        ELSE _error_result("No tables found in financial statement")

\* lines 404-431: at least one table was kept
StatementFromTables(read, pages_processed) ==
    [t |-> "result",
     success |-> TRUE,
     data |-> SummaryFrom(read.all_text, 1)
              @@ [statement_type |-> Str(_detect_statement_type(read.all_text)),
                  period |-> _extract_period(read.all_text),
                  currency |-> _detect_currency(read.all_text).value,
                  tables |-> List([i \in 1..Len(read.all_tables) |-> StatementTable(read.all_tables[i])]),
                  total_tables |-> Len(read.all_tables),
                  total_rows |-> TotalRows(read.all_tables),
                  pages_processed |-> pages_processed],
     confidence |-> 82,
     field_confidences |-> EmptyMap,
     error |-> None,
     warnings |-> <<>>,
     requires_review |-> FALSE]

StatementBody(pdf) ==
    IF ~pdf.opens THEN Raise(OpenError)
    ELSE LET read == ReadPages(pdf.pages, TRUE)
         IN  IF read.error # None THEN Raise(read.error.s)
             ELSE IF read.all_tables = <<>> THEN Return(StatementFromText(read.all_text))
             ELSE Return(StatementFromTables(read, Len(pdf.pages)))

extract_financial_statement_ml(pdf) == Caught(StatementBody(pdf))

(***************************************************************************)
(* Generic extractor                                                       *)
(***************************************************************************)
\* a slip in the slice: every match is kept, whatever n
AllOnes(matches, n) == SetToBag({matches[i] : i \in 1..Len(matches)})

\* list(set(matches[:n])), with each match stripped where the code strips it.
\* The order of a list made from a set is not fixed, so the list is held as
\* the bag of its entries: each entry with the number of times it stands in
\* the list, which set() makes one.
FirstOnes(matches, n) ==
    SetToBag({matches[i] : i \in 1..(IF Len(matches) < n THEN Len(matches) ELSE n)})

\* a key the code adds only `if matches:`
Optional(key, matches, found) ==
    IF matches = <<>> THEN EmptyMap ELSE [k \in {key} |-> found]

\* the pages with text.strip(), as text_blocks
RECURSIVE TextBlocksFrom(_, _)
TextBlocksFrom(page_texts, i) ==
    IF i > Len(page_texts) THEN <<>>
    ELSE (IF Strip(page_texts[i].text) # "" THEN <<page_texts[i]>> ELSE <<>>)
         \o TextBlocksFrom(page_texts, i + 1)

\* for pattern in DATE_PATTERNS: all_dates.extend(re.findall(pattern, all_text))
AllDates(all_text) ==
    AllMatches(all_text, "bare_date", "1") \o AllMatches(all_text, "bare_date", "2")
    \o AllMatches(all_text, "bare_date", "3") \o AllMatches(all_text, "bare_date", "4")

\* lines 517-521
\* a slip in the order of the tests: a table outweighs a short text
GenericConfidenceTablesFirst(all_text, tables) ==
    IF tables # <<>> THEN 80 ELSE IF Len(all_text.str) < 100 THEN 50 ELSE 75

GenericConfidence(all_text, tables) ==
    IF Len(all_text.str) < 100 THEN 50 ELSE IF tables # <<>> THEN 80 ELSE 75

GenericResult(read, pages_processed) ==
    LET all_text == read.all_text
        amounts == AllMatches(all_text, "bare_amount", "1")
        emails == AllMatches(all_text, "bare_email", "1")
        phones == AllMatches(all_text, "bare_phone", "1")
        urls == AllMatches(all_text, "bare_url", "1")
        fields ==
            [pages_processed |-> pages_processed,
             total_characters |-> Len(all_text.str),
             text_blocks |-> List(TextBlocksFrom(read.page_texts, 1)),
             tables |-> List([i \in 1..Len(read.all_tables) |-> ParsedTable(read.all_tables[i])]),
             total_tables |-> Len(read.all_tables),
             total_rows |-> TotalRows(read.all_tables),
             currency |-> _detect_currency(all_text).value]
            @@ Optional("dates_found", AllDates(all_text), FirstOnes(AllDates(all_text), 20))
            @@ Optional("amounts_found", amounts,
                        FirstOnes([i \in 1..Len(amounts) |-> Strip(amounts[i])], 20))
            @@ Optional("emails_found", emails, FirstOnes(emails, Len(emails)))
            @@ Optional("phones_found", phones,
                        FirstOnes([i \in 1..Len(phones) |-> Strip(phones[i])], 10))
            @@ Optional("urls_found", urls, FirstOnes(urls, Len(urls)))
    IN  [t |-> "result",
         success |-> TRUE,
         data |-> fields,
         confidence |-> GenericConfidence(all_text, read.all_tables),
         field_confidences |-> EmptyMap,
         error |-> None,
         warnings |-> <<"Generic extraction \\u2014 specific document type may yield better results">>,
         requires_review |-> FALSE]

GenericBody(pdf) ==
    IF ~pdf.opens THEN Raise(OpenError)
    ELSE LET read == ReadPages(pdf.pages, TRUE)
         IN  IF read.error # None THEN Raise(read.error.s)
             ELSE Return(GenericResult(read, Len(pdf.pages)))

extract_generic_data_ml(pdf) == Caught(GenericBody(pdf))

(***************************************************************************)
(* Document classification and the background extraction of an upload      *)
(***************************************************************************)
InvoiceWords == {"invoice", "invoice no", "inv.", "bill", "faktura", "fakturanr", "fakturanummer"}
ContractWords == {"contract", "agreement", "between", "kontrakt", "avtale"}
StatementWords ==
    {"balance sheet", "income statement", "cash flow", "p&l", "balanse", "resultatregnskap"}

\* a slip in the order of the tests: the contract keywords are tried first
_detect_document_type_contract_first(pdf) ==
    IF ~pdf.opens THEN "generic"
    ELSE IF pdf.pages # <<>> /\ pdf.pages[1].fails = "text" THEN "generic"
    ELSE LET first_page_text ==
                 IF pdf.pages = <<>> \/ pdf.pages[1].text = None THEN ""
                 ELSE Lower(pdf.pages[1].text.str)
         IN  IF HasAny(first_page_text, ContractWords) THEN "contract"
             ELSE IF HasAny(first_page_text, InvoiceWords) THEN "invoice"
             ELSE IF HasAny(first_page_text, StatementWords) THEN "statement"
             ELSE "generic"

\* the text of the first page, lowercased; an exception while reading it ends in "generic"
_detect_document_type(pdf) ==
    IF ~pdf.opens THEN "generic"
    ELSE IF pdf.pages # <<>> /\ pdf.pages[1].fails = "text" THEN "generic"
    ELSE LET first_page_text ==
                 IF pdf.pages = <<>> \/ pdf.pages[1].text = None THEN ""
                 ELSE Lower(pdf.pages[1].text.str)
         IN  IF HasAny(first_page_text, InvoiceWords) THEN "invoice"
             ELSE IF HasAny(first_page_text, ContractWords) THEN "contract"
             ELSE IF HasAny(first_page_text, StatementWords) THEN "statement"
             ELSE "generic"

(***************************************************************************)
(* The module-level LayoutLM singleton                                     *)
(* The state of the module is [model, processor, device, loader_calls].    *)
(***************************************************************************)
ModuleState(model, processor, device, n) ==
    [model |-> model, processor |-> processor, device |-> device, loader_calls |-> n]

Devices == {Str("cuda"), Str("cpu")}

\* the states _get_ml_model can leave: nothing is assigned when the import
\* fails, _device alone or _device and _processor when a from_pretrained
\* call raises, all three when the model loads; a loaded model is kept
_get_ml_model(module) ==
    LET called == module.loader_calls + 1
    IN  IF module.model # None
        THEN {ModuleState(module.model, module.processor, module.device, called)}
        ELSE {ModuleState(None, module.processor, module.device, called)}
             \cup {ModuleState(None, module.processor, device, called) : device \in Devices}
             \cup {ModuleState(None, Str("AutoProcessor"), device, called) : device \in Devices}
             \cup {ModuleState(Str("layoutlm-base"), Str("AutoProcessor"), device, called) :
                       device \in Devices}

\* a slip that would share state between calls: the extractor loads the model
ModuleAfterLoading(type, module) ==
    CHOOSE after \in _get_ml_model(module) : after.model # None

\* the module state an extractor call leaves: no extractor refers to
\* _get_ml_model, _model, _processor or _device
ModuleAfterExtraction(type, module) == module

\* lines 181-188 of _extract_pdf_background
ExtractAs(type, pdf) ==
    IF type = "invoice" THEN extract_invoice_data_ml(pdf)
    ELSE IF type = "contract" THEN extract_contract_data_ml(pdf)
    ELSE IF type = "statement" THEN extract_financial_statement_ml(pdf)
    ELSE extract_generic_data_ml(pdf)

(***************************************************************************)
(* Inputs of the aggregator                                                *)
(***************************************************************************)
AggFieldNames == <<"invoice_number", "total_amount", "currency", "due_date", "reference">>

AggFields == {AggFieldNames[i] : i \in 1..MaxAggFields}

AggConfidences == {0, 50, 80, 85, 90}

AggMaps == UNION {[fs -> AggConfidences] : fs \in SUBSET AggFields}

AggKeySets == SUBSET {"invoice_number", "total_amount", "vendor_name"}

\* a dict iterates in insertion order; the maps handed in are filled in the
\* order of AggFieldNames
DictOrder(field_confidences) ==
    SelectSeq(AggFieldNames, LAMBDA field : field \in DOMAIN field_confidences)

(***************************************************************************)
(* Inputs of the table mapper                                              *)
(***************************************************************************)
SeqsOfLen(S, n) == [1..n -> S]

SeqsBetween(S, lo, hi) == UNION {SeqsOfLen(S, n) : n \in lo..hi}

HeaderCells ==
    {Str("Description"), Str("Qty"), Str("Unit Price"), Str("Amount"), Str(" Beløp "),
     Str("Address"), Str("VAT"), Str(""), None}

BodyRows ==
    {<<Str("Consulting"), Str("1 000,00")>>,
     <<None, Str("")>>,
     <<Str("N/A")>>,
     <<Str(""), Str("12.5"), Str("x")>>}

EnumeratedTables ==
    {<<h>> \o b : h \in SeqsBetween(HeaderCells, 1, MaxCols), b \in SeqsBetween(BodyRows, 1, MaxRows)}

InvoiceTable ==
    <<<<Str("Description"), Str("Qty"), Str("Unit Price"), Str("Amount")>>,
      <<Str("Consulting"), Str("10"), Str("1000.00"), Str("10000.00")>>>>

AddressTable ==
    <<<<Str("Name"), Str("Address")>>, <<Str("Acme AS"), Str("Storgata 1")>>>>

NorwegianTable ==
    <<<<Str("Varenr"), Str("Beskrivelse"), Str("Antall"), Str("À pris"), Str("MVA"),
        Str("Rabatt"), Str("Beløp")>>,
      <<Str("A-1"), Str("Timer"), Str("2"), Str("1.234,56"), Str("25"), None, Str("2 469,12")>>,
      <<None, None, None, None, None, None, None>>,
      <<Str("  "), Str("A-2"), None, None, None, None, Str("")>>,
      <<None, None, None, None, None, None, Str("kr 10,00")>>>>

QuantityOnlyTable ==
    <<<<Str("Qty"), Str("Unit"), Str("VAT")>>, <<Str("3"), Str("pcs"), Str("25")>>>>

HeaderOnlyTable == <<<<Str("Description"), Str("Amount")>>>>

SampleTables ==
    {InvoiceTable, AddressTable, NorwegianTable, QuantityOnlyTable, HeaderOnlyTable}

TableLists ==
    {<<>>} \cup {<<t>> : t \in EnumeratedTables \cup SampleTables}
           \cup {<<t1, t2>> : t1 \in SampleTables, t2 \in SampleTables}

(***************************************************************************)
(* Inputs of the normalizer                                                *)
(***************************************************************************)
AmountAlphabet == {"1", "2", ".", ",", " ", "a"}

RECURSIVE StringsOfLen(_, _)
StringsOfLen(A, n) ==
    IF n = 0 THEN {""}
    ELSE {s \o c : s \in StringsOfLen(A, n - 1), c \in A}

StringsUpTo(A, n) == UNION {StringsOfLen(A, k) : k \in 0..n}

\* amounts in the regional conventions, too long to enumerate exhaustively
GroupedSamples ==
    {a \o s1 \o "234" \o s2 \o "56" :
        a \in {"1", "12", "123", "1234"}, s1 \in {".", ",", " ", ""}, s2 \in {".", ","}}

AmountSamples ==
    {"1.234,56", "1,234.56", "1234,56", "1 234.56", "abc", "12 500,00",
     "1.234.567,89", "1,234,567.89", "10000.00", "0.00", "1 000", "kr 500,00",
     " 12,5 ", "1.2.3", "12.345", "1.234,5", "N/A", "-"}

AmountInputs == StringsUpTo(AmountAlphabet, MaxRawLen) \cup GroupedSamples \cup AmountSamples

(***************************************************************************)
(* Sample page texts, with the matches of the code's patterns in them      *)
(***************************************************************************)
\* a page without text
EmptyText ==
    [str |-> "",
     hits |-> <<>>]

\* a page whose text is whitespace
BlankText ==
    [str |-> "  \n ",
     hits |-> <<>>]

\* the invoice of the end-to-end scenario
InvoiceText ==
    [str |-> "Invoice Number: INV-2024-001\nDate: 2024-03-15\nTotal: 12 500,00 kr\nThank you for your business under our agreement. See the cash flow note and quote the number above when you pay this bill to Kontonr: 1503 12 34567, SWIFT: DNBANOKK.",
     hits |-> <<
        [p |-> "invoice_number", k |-> "1", v |-> <<"INV-2024-001">>],
        [p |-> "invoice_number", k |-> "2", v |-> <<"Number">>],
        [p |-> "invoice_number", k |-> "3", v |-> <<"2024-001">>],
        [p |-> "date_direct", k |-> "date/1", v |-> <<"2024-03-15">>],
        [p |-> "date_window", k |-> "date", v |-> <<"2024-03-15", "", "", "">>],
        [p |-> "date_window", k |-> "invoice", v |-> <<"2024-03-15", "", "", "">>],
        [p |-> "amount_direct", k |-> "total", v |-> <<"12 500,00">>],
        [p |-> "amount_window", k |-> "total", v |-> <<"12 500,00">>],
        [p |-> "entity", k |-> "to", v |-> <<"Kontonr: 1503 12 34567, SWIFT: DNBANOKK.">>],
        [p |-> "entity", k |-> "bill to", v |-> <<"Kontonr: 1503 12 34567, SWIFT: DNBANOKK.">>],
        [p |-> "address", k |-> "1", v |-> <<"2024">>],
        [p |-> "bank", k |-> "2", v |-> <<"1503 12 34567">>],
        [p |-> "bank", k |-> "3", v |-> <<"DNBANOKK">>],
        [p |-> "bare_date", k |-> "1", v |-> <<"2024-03-15">>],
        [p |-> "bare_date", k |-> "3", v |-> <<"1503 12 3456">>]>>]

\* an invoice with most header fields
FullInvoiceText ==
    [str |-> "Acme Consulting AS\nFaktura\nInvoice Number: INV-2024-001\nInvoice Date: 2024-03-15\nDue Date: 15.04.2024\nFrom: Acme Consulting AS\nOrg.nr: 912 345 678\nBill To: Beta Industrier AS\nSubtotal: 10 000,00\nVAT 25%: 2 500,00\nTotal: 12 500,00 kr\nAmount due: 12 500,00 kr\nPayment terms: net 30 days\nIBAN: NO93 8601 1117 947\nReference: PRJ-77\nPO Number: 4500123",
     hits |-> <<
        [p |-> "invoice_number", k |-> "1", v |-> <<"Invoice">>],
        [p |-> "invoice_number", k |-> "2", v |-> <<"Invoice">>],
        [p |-> "invoice_number", k |-> "3", v |-> <<"2024-001">>],
        [p |-> "date_direct", k |-> "invoice date/1", v |-> <<"2024-03-15">>],
        [p |-> "date_direct", k |-> "date/1", v |-> <<"2024-03-15">>],
        [p |-> "date_direct", k |-> "date/2", v |-> <<"15.04.2024">>],
        [p |-> "date_direct", k |-> "due date/2", v |-> <<"15.04.2024">>],
        [p |-> "date_window", k |-> "invoice date", v |-> <<"2024-03-15", "15.04.2024", "", "">>],
        [p |-> "date_window", k |-> "date", v |-> <<"2024-03-15", "15.04.2024", "", "">>],
        [p |-> "date_window", k |-> "invoice", v |-> <<"2024-03-15", "15.04.2024", "", "">>],
        [p |-> "date_window", k |-> "due date", v |-> <<"", "15.04.2024", "", "">>],
        [p |-> "date_window", k |-> "due", v |-> <<"", "15.04.2024", "", "">>],
        [p |-> "amount_direct", k |-> "subtotal", v |-> <<"10 000,00">>],
        [p |-> "amount_direct", k |-> "vat", v |-> <<"25">>],
        [p |-> "amount_direct", k |-> "total", v |-> <<"10 000,00">>],
        [p |-> "amount_direct", k |-> "amount due", v |-> <<"12 500,00">>],
        [p |-> "amount_window", k |-> "subtotal", v |-> <<"10 000,00", "2 500,00", "12 500,00", "12 500,00">>],
        [p |-> "amount_window", k |-> "vat", v |-> <<"2 500,00", "12 500,00", "12 500,00">>],
        [p |-> "amount_window", k |-> "total", v |-> <<"10 000,00", "2 500,00", "12 500,00", "12 500,00">>],
        [p |-> "amount_window", k |-> "amount due", v |-> <<"12 500,00">>],
        [p |-> "amount_window", k |-> "amount", v |-> <<"12 500,00">>],
        [p |-> "value", k |-> "po number", v |-> <<"4500123">>],
        [p |-> "value", k |-> "reference", v |-> <<"PRJ-77">>],
        [p |-> "entity", k |-> "from", v |-> <<"Acme Consulting AS">>],
        [p |-> "entity", k |-> "to", v |-> <<"Beta Industrier AS">>],
        [p |-> "entity", k |-> "bill to", v |-> <<"Beta Industrier AS">>],
        [p |-> "address", k |-> "1", v |-> <<"2024">>],
        [p |-> "tax_rate", k |-> "1", v |-> <<"25">>],
        [p |-> "payment_terms", k |-> "1", v |-> <<"net 30 days">>],
        [p |-> "payment_terms", k |-> "2", v |-> <<"net 30 days">>],
        [p |-> "payment_terms", k |-> "4", v |-> <<"30 days\n">>],
        [p |-> "bank", k |-> "1", v |-> <<"NO93 8601 1117 947\nReference">>],
        [p |-> "bare_date", k |-> "1", v |-> <<"2024-03-15">>],
        [p |-> "bare_date", k |-> "2", v |-> <<"15.04.2024">>],
        [p |-> "bare_date", k |-> "4", v |-> <<"8601 1117">>],
        [p |-> "bare_phone", k |-> "1", v |-> <<"912 345 678", "93 8601 1117">>]>>]

\* the contract of the end-to-end scenario
ContractText ==
    [str |-> "This Agreement is entered into between Acme AS and Beta AS.",
     hits |-> <<
        [p |-> "entity", k |-> "to", v |-> <<"between Acme AS and Beta AS.">>],
        [p |-> "parties_between", k |-> "1", v |-> <<"Acme AS", "Beta AS">>]>>]

\* a contract naming its parties by label
PartyContractText ==
    [str |-> "Service Agreement\nParty A: Acme AS\nParty B: Beta AS\nParty 1: Gamma AS\nEffective Date: 2024-01-01\nEnd date: 31.12.2024\nGoverning law: Norway\n1. Termination\nEither party may terminate from 2024-06-30 with thirty days written notice.\n\n2. Liability\nNeither party is liable for indirect losses or lost cash flow.\n\n3. Notices are sent in writing.\nSigned: 05.01.2024 (Oslo)\nSigned: 2024-01-06 (Bergen)",
     hits |-> <<
        [p |-> "date_direct", k |-> "date/1", v |-> <<"2024-01-01">>],
        [p |-> "date_direct", k |-> "date/2", v |-> <<"31.12.2024">>],
        [p |-> "date_direct", k |-> "effective date/1", v |-> <<"2024-01-01">>],
        [p |-> "date_direct", k |-> "end date/2", v |-> <<"31.12.2024">>],
        [p |-> "date_direct", k |-> "signed/1", v |-> <<"2024-01-06">>],
        [p |-> "date_direct", k |-> "signed/2", v |-> <<"05.01.2024">>],
        [p |-> "date_window", k |-> "date", v |-> <<"2024-01-01", "31.12.2024", "", "">>],
        [p |-> "date_window", k |-> "effective date", v |-> <<"2024-01-01", "31.12.2024", "", "">>],
        [p |-> "date_window", k |-> "termination", v |-> <<"2024-06-30", "", "", "">>],
        [p |-> "date_window", k |-> "end date", v |-> <<"2024-06-30", "31.12.2024", "", "">>],
        [p |-> "date_window", k |-> "signed", v |-> <<"2024-01-06", "05.01.2024", "", "">>],
        [p |-> "value", k |-> "governing law", v |-> <<"Norway">>],
        [p |-> "entity", k |-> "from", v |-> <<"2024-06-30 with thirty days written notice.">>],
        [p |-> "address", k |-> "1", v |-> <<" Beta AS\nParty 1">>],
        [p |-> "parties_labeled", k |-> "1", v |-> <<"Acme AS", "Beta AS", "Gamma AS">>],
        [p |-> "clause", k |-> "termination", v |-> <<"Either party may terminate from 2024-06-30 with thirty days written notice.">>],
        [p |-> "clause", k |-> "liability", v |-> <<"Neither party is liable for indirect losses or lost cash flow.">>],
        [p |-> "bare_date", k |-> "1", v |-> <<"2024-01-01", "2024-06-30", "2024-01-06">>],
        [p |-> "bare_date", k |-> "2", v |-> <<"31.12.2024", "05.01.2024">>]>>]

\* a statement with a summary total
StatementText ==
    [str |-> "Balance Sheet\nPeriod: 2024-01-01 - 2024-12-31\nTotal: 5 000,00 NOK\nThe figures are unaudited and were prepared by the management of the company, BIC: DNBANOKK.",
     hits |-> <<
        [p |-> "amount_direct", k |-> "total", v |-> <<"5 000,00">>],
        [p |-> "amount_window", k |-> "total", v |-> <<"5 000,00">>],
        [p |-> "amount_window", k |-> "balance", v |-> <<"5 000,00">>],
        [p |-> "address", k |-> "1", v |-> <<" 2024">>],
        [p |-> "bank", k |-> "3", v |-> <<"DNBANOKK">>],
        [p |-> "period", k |-> "1", v |-> <<"Period: 2024-01-01 - 2024-12-31\n">>],
        [p |-> "period", k |-> "2", v |-> <<"2024-01-01 - 2024-12-31">>],
        [p |-> "bare_date", k |-> "1", v |-> <<"2024-01-01", "2024-12-31">>]>>]

\* label, gap, number lines and no keyword, 98 characters
StatementLinesText ==
    [str |-> "Revenue   1 234,56\nCosts   234,00\nSalaries   500,00\nRent   100,00\nInterest   12,00\nOther      1,00",
     hits |-> <<
        [p |-> "address", k |-> "1", v |-> <<"Revenue   1 234,">>],
        [p |-> "statement_line", k |-> "1", v |-> <<"Revenue", "1 234,56">>],
        [p |-> "statement_line", k |-> "1", v |-> <<"Costs", "234,00">>],
        [p |-> "statement_line", k |-> "1", v |-> <<"Salaries", "500,00">>],
        [p |-> "statement_line", k |-> "1", v |-> <<"Rent", "100,00">>],
        [p |-> "statement_line", k |-> "1", v |-> <<"Interest", "12,00">>],
        [p |-> "statement_line", k |-> "1", v |-> <<"Other", "1,00">>]>>]

\* a short text with nothing to find
ShortText ==
    [str |-> "Hello world.",
     hits |-> <<>>]

\* a text of 100 characters or more, with a Norwegian summary label
LongText ==
    [str |-> "Resultat: 250,00. Meeting notes of the planning session dated in Oslo on 2024-05-02. Contact ola@example.no or ola@example.no, phone +47 22 33 44 55, see www.example.no for the budget of EUR 1 500,50.",
     hits |-> <<
        [p |-> "date_window", k |-> "date", v |-> <<"2024-05-02", "", "", "">>],
        [p |-> "date_window", k |-> "dated", v |-> <<"2024-05-02", "", "", "">>],
        [p |-> "amount_direct", k |-> "resultat", v |-> <<"250,00">>],
        [p |-> "amount_window", k |-> "resultat", v |-> <<"250,00">>],
        [p |-> "address", k |-> "1", v |-> <<" 250,">>],
        [p |-> "bare_date", k |-> "1", v |-> <<"2024-05-02">>],
        [p |-> "bare_amount", k |-> "1", v |-> <<"EUR 1 500,50">>],
        [p |-> "bare_email", k |-> "1", v |-> <<"ola@example.no", "ola@example.no">>],
        [p |-> "bare_url", k |-> "1", v |-> <<"www.example.no">>]>>]

\* a text with more dates, amounts, phone numbers, e-mail addresses and URLs than any cap
ListText ==
    [str |-> "Notes\n2024-01-01 2024-01-02 2024-01-03 2024-01-04 2024-01-05 2024-01-06 2024-01-07 2024-01-08 2024-01-09 2024-01-10 2024-01-11 2024-01-12 2024-01-13 2024-01-14 2024-01-15 2024-01-16 2024-01-17 2024-01-18 2024-01-19 2024-01-20 2024-01-21\nkr 10 kr 11 kr 12 kr 13 kr 14 kr 15 kr 16 kr 17 kr 18 kr 19 kr 20 kr 21 kr 22 kr 23 kr 24 kr 25 kr 26 kr 27 kr 28 kr 29 kr 30\na1@b.no a2@b.no a3@b.no a4@b.no a5@b.no a6@b.no a7@b.no a8@b.no a9@b.no a10@b.no a11@b.no a12@b.no a13@b.no a14@b.no a15@b.no a16@b.no a17@b.no a18@b.no a19@b.no a20@b.no a21@b.no\n22334400, 22334401, 22334402, 22334403, 22334404, 22334405, 22334406, 22334407, 22334408, 22334409, 22334410\nwww.a1.no www.a2.no www.a3.no www.a4.no www.a5.no www.a6.no www.a7.no www.a8.no www.a9.no www.a10.no www.a11.no www.a12.no www.a13.no www.a14.no www.a15.no www.a16.no www.a17.no www.a18.no www.a19.no www.a20.no www.a21.no",
     hits |-> <<
        [p |-> "address", k |-> "1", v |-> <<"Notes\n2024">>],
        [p |-> "bare_date", k |-> "1", v |-> <<"2024-01-01", "2024-01-02", "2024-01-03", "2024-01-04", "2024-01-05", "2024-01-06", "2024-01-07", "2024-01-08", "2024-01-09", "2024-01-10", "2024-01-11", "2024-01-12", "2024-01-13", "2024-01-14", "2024-01-15", "2024-01-16", "2024-01-17", "2024-01-18", "2024-01-19", "2024-01-20", "2024-01-21">>],
        [p |-> "bare_date", k |-> "4", v |-> <<"22334400", "22334401", "22334402", "22334403", "22334404", "22334405", "22334406", "22334407", "22334408", "22334409", "22334410">>],
        [p |-> "bare_amount", k |-> "1", v |-> <<"kr 10", "kr 11", "kr 12", "kr 13", "kr 14", "kr 15", "kr 16", "kr 17", "kr 18", "kr 19", "kr 20", "kr 21", "kr 22", "kr 23", "kr 24", "kr 25", "kr 26", "kr 27", "kr 28", "kr 29", "kr 30">>],
        [p |-> "bare_email", k |-> "1", v |-> <<"a1@b.no", "a2@b.no", "a3@b.no", "a4@b.no", "a5@b.no", "a6@b.no", "a7@b.no", "a8@b.no", "a9@b.no", "a10@b.no", "a11@b.no", "a12@b.no", "a13@b.no", "a14@b.no", "a15@b.no", "a16@b.no", "a17@b.no", "a18@b.no", "a19@b.no", "a20@b.no", "a21@b.no">>],
        [p |-> "bare_phone", k |-> "1", v |-> <<"22334400", "22334401", "22334402", "22334403", "22334404", "22334405", "22334406", "22334407", "22334408", "22334409", "22334410">>],
        [p |-> "bare_url", k |-> "1", v |-> <<"www.a1.no", "www.a2.no", "www.a3.no", "www.a4.no", "www.a5.no", "www.a6.no", "www.a7.no", "www.a8.no", "www.a9.no", "www.a10.no", "www.a11.no", "www.a12.no", "www.a13.no", "www.a14.no", "www.a15.no", "www.a16.no", "www.a17.no", "www.a18.no", "www.a19.no", "www.a20.no", "www.a21.no">>]>>]

(***************************************************************************)
(* Inputs of the extractors: documents of up to MaxPages pages             *)
(***************************************************************************)
BalanceTable ==
    <<<<Str("Account"), None, Str("2024")>>,
      <<Str("Cash"), Str("a"), Str(" 1 000,00 "), Str("x")>>,
      <<Str("Total assets"), None, Str("5 000,00")>>>>

EmptyGrid == <<<<None, None>>, <<None, None>>>>

PagePool ==
    {Page(None, <<>>, "none"),
     Page(EmptyText, <<>>, "none"),
     Page(BlankText, <<EmptyGrid>>, "none"),
     Page(InvoiceText, <<>>, "none"),
     Page(FullInvoiceText, <<InvoiceTable>>, "none"),
     Page(ContractText, <<>>, "none"),
     Page(PartyContractText, <<>>, "none"),
     Page(StatementText, <<HeaderOnlyTable, BalanceTable>>, "none"),
     Page(StatementLinesText, <<>>, "none"),
     Page(ShortText, <<HeaderOnlyTable>>, "none"),
     Page(LongText, <<AddressTable>>, "none"),
     Page(InvoiceText, <<>>, "text"),
     Page(StatementText, <<>>, "tables")}

Documents ==
    {[opens |-> FALSE, pages |-> <<>>]}
    \cup {[opens |-> TRUE, pages |-> ps] : ps \in SeqsBetween(PagePool, 0, MaxPages)}

NoDocument == [opens |-> FALSE, pages |-> <<>>]


(***************************************************************************)
(* Specification of the extractors: a document is handed to one of the     *)
(* four extractors directly, or it is an upload that the background job    *)
(* classifies, extracts and records.                                       *)
(***************************************************************************)
\* no background thread was started
JobIdle ==
    /\ job = "none"
    /\ exc = None

\* no text was handed to the labeled-amount primitive on its own
PrimitiveIdle ==
    /\ amount_text = Text("", <<>>)
    /\ labeled_amount = Pending

\* the module as imported: lines 30-32
ModuleImported ==
    /\ _model = None
    /\ _processor = None
    /\ _device = None
    /\ loader_calls = 0

\* no thread has made a call
Idle == [pc |-> "idle", type |-> "none", pdf |-> NoDocument, result |-> Pending]

NoCalls == [thread \in 1..MaxThreads |-> Idle]

ExtractorIdle ==
    /\ pdf_path = NoDocument
    /\ doc_type = "none"
    /\ result = Pending
    /\ upload_status = "none"
    /\ error_message = None
    /\ extraction = None
    /\ ModuleImported
    /\ calls = NoCalls

Init ==
    /\ pdf_path \in Documents
    /\ doc_type = "none"
    /\ result = Pending
    /\ upload_status = "pending"
    /\ error_message = None
    /\ extraction = None
    /\ raw = ""
    /\ normalized = Pending
    /\ all_tables = <<>>
    /\ line_items = Pending
    /\ agg_confidences = EmptyMap
    /\ agg_key_fields = {}
    /\ agg_result = Pending
    /\ agg_double = Pending
    /\ PrimitiveIdle
    /\ JobIdle
    /\ ModuleImported
    /\ calls = NoCalls

\* a direct call of one extractor on the document
Extract(type) ==
    /\ result = Pending
    /\ upload_status = "pending"
    /\ doc_type' = type
    /\ result' = ExtractAs(type, pdf_path)
    /\ UNCHANGED <<jobVars, primitiveVars, pdf_path, upload_status, error_message, extraction,
                   normalizerVars, mapperVars, aggregatorVars, moduleVars, calls>>

ExtractInvoice == Extract("invoice")

ExtractContract == Extract("contract")

ExtractStatement == Extract("statement")

ExtractGeneric == Extract("generic")

\* _extract_pdf_background up to db.update_pdf_status(upload_id, "processing")
BeginBackground ==
    /\ result = Pending
    /\ upload_status = "pending"
    /\ upload_status' = "processing"
    /\ UNCHANGED <<jobVars, primitiveVars, pdf_path, doc_type, result, error_message, extraction,
                   normalizerVars, mapperVars, aggregatorVars, moduleVars, calls>>

\* the rest of _extract_pdf_background: classify, extract, record
FinishBackground ==
    /\ upload_status = "processing"
    /\ \E type \in {_detect_document_type(pdf_path)} :
         \E res \in {ExtractAs(type, pdf_path)} :
            /\ doc_type' = type
            /\ result' = res
            /\ IF res.success
               THEN /\ extraction' = [extraction_type |-> type,
                                      extracted_data |-> res.data,
                                      confidence_score |-> res.confidence,
                                      page_number |-> 1]
                    /\ upload_status' = "completed"
                    /\ error_message' = None
               ELSE /\ extraction' = None
                    /\ upload_status' = "error"
                    /\ error_message' = res.error
    /\ UNCHANGED <<jobVars, primitiveVars, pdf_path, normalizerVars, mapperVars, aggregatorVars, moduleVars, calls>>

Next ==
    \/ ExtractInvoice
    \/ ExtractContract
    \/ ExtractStatement
    \/ ExtractGeneric
    \/ BeginBackground
    \/ FinishBackground

Spec == Init /\ [][Next]_vars

(***************************************************************************)
(* Specification of the normalizer: one call on one input                  *)
(***************************************************************************)
InitNormalize ==
    /\ ExtractorIdle
    /\ raw \in AmountInputs
    /\ normalized = Pending
    /\ all_tables = <<>>
    /\ line_items = Pending
    /\ agg_confidences = EmptyMap
    /\ agg_key_fields = {}
    /\ agg_result = Pending
    /\ agg_double = Pending
    /\ PrimitiveIdle
    /\ JobIdle

Normalize ==
    /\ normalized = Pending
    /\ normalized' = _normalize_amount(raw)
    /\ UNCHANGED <<jobVars, primitiveVars, raw, mapperVars, aggregatorVars, extractorVars, moduleVars, calls>>

NextNormalize == Normalize

SpecNormalize == InitNormalize /\ [][NextNormalize]_vars

(***************************************************************************)
(* Specification of the table mapper: one call on one list of tables       *)
(***************************************************************************)
InitLineItems ==
    /\ ExtractorIdle
    /\ all_tables \in TableLists
    /\ line_items = Pending
    /\ raw = ""
    /\ normalized = Pending
    /\ agg_confidences = EmptyMap
    /\ agg_key_fields = {}
    /\ agg_result = Pending
    /\ agg_double = Pending
    /\ PrimitiveIdle
    /\ JobIdle

ExtractLineItems ==
    /\ line_items = Pending
    /\ line_items' = List(_extract_line_items(all_tables))
    /\ UNCHANGED <<jobVars, primitiveVars, all_tables, normalizerVars, aggregatorVars, extractorVars, moduleVars, calls>>

NextLineItems == ExtractLineItems

SpecLineItems == InitLineItems /\ [][NextLineItems]_vars

(***************************************************************************)
(* Specification of the aggregator: one call on one map and key-field set  *)
(***************************************************************************)
InitAggregate ==
    /\ ExtractorIdle
    /\ agg_confidences \in AggMaps
    /\ agg_key_fields \in AggKeySets
    /\ agg_result = Pending
    /\ agg_double = Pending
    /\ PrimitiveIdle
    /\ JobIdle
    /\ raw = ""
    /\ normalized = Pending
    /\ all_tables = <<>>
    /\ line_items = Pending

Aggregate ==
    /\ agg_result = Pending
    /\ agg_result' = _calculate_weighted_confidence(agg_confidences, agg_key_fields)
    /\ agg_double' = WeightedConfidenceDouble(agg_confidences, agg_key_fields,
                                               DictOrder(agg_confidences))
    /\ UNCHANGED <<jobVars, primitiveVars, agg_confidences, agg_key_fields, normalizerVars, mapperVars, extractorVars,
                   moduleVars, calls>>

NextAggregate == Aggregate

SpecAggregate == InitAggregate /\ [][NextAggregate]_vars

(***************************************************************************)
(* Specification of concurrent callers: each thread calls one extractor on *)
(* its own document, any number of times; an extractor has no suspension   *)
(* point, so a call is one step of its thread                              *)
(***************************************************************************)
Threads == 1..MaxThreads

ExtractorTypes == {"invoice", "contract", "statement", "generic"}

CallDocuments ==
    {[opens |-> TRUE, pages |-> <<Page(InvoiceText, <<>>, "none")>>],
     [opens |-> TRUE, pages |-> <<Page(ContractText, <<>>, "none")>>]}

InitCalls ==
    /\ calls = NoCalls
    /\ ModuleImported
    /\ pdf_path = NoDocument
    /\ doc_type = "none"
    /\ result = Pending
    /\ upload_status = "none"
    /\ error_message = None
    /\ extraction = None
    /\ raw = ""
    /\ normalized = Pending
    /\ all_tables = <<>>
    /\ line_items = Pending
    /\ agg_confidences = EmptyMap
    /\ agg_key_fields = {}
    /\ agg_result = Pending
    /\ agg_double = Pending
    /\ PrimitiveIdle
    /\ JobIdle

\* a thread is started on a document, as upload_pdf starts one for each file
StartCall(thread) ==
    /\ calls[thread].pc \in {"idle", "done"}
    /\ \E type \in ExtractorTypes, pdf \in CallDocuments :
          calls' = [calls EXCEPT ![thread] =
                       [pc |-> "running", type |-> type, pdf |-> pdf, result |-> Pending]]
    /\ UNCHANGED <<jobVars, primitiveVars, normalizerVars, mapperVars, aggregatorVars, extractorVars, moduleVars>>

\* the thread's extractor runs from its first line to its return
RunCall(thread) ==
    /\ calls[thread].pc = "running"
    /\ \E after \in {ModuleAfterExtraction(calls[thread].type,
                                             ModuleState(_model, _processor, _device,
                                                         loader_calls))} :
          /\ _model' = after.model
          /\ _processor' = after.processor
          /\ _device' = after.device
          /\ loader_calls' = after.loader_calls
    /\ calls' = [calls EXCEPT ![thread].pc = "done",
                              ![thread].result = ExtractAs(calls[thread].type, calls[thread].pdf)]
    /\ UNCHANGED <<jobVars, primitiveVars, normalizerVars, mapperVars, aggregatorVars, extractorVars>>

NextCalls == \E thread \in Threads : StartCall(thread) \/ RunCall(thread)

SpecCalls == InitCalls /\ [][NextCalls]_vars

(***************************************************************************)
(* Specification of the background thread: upload_pdf has stored the       *)
(* upload as pending and started the thread; the thread takes the steps of *)
(* _extract_pdf_background one store access at a time, and each access to  *)
(* the store either succeeds or raises                                     *)
(***************************************************************************)
BackgroundPagePool ==
    {Page(InvoiceText, <<>>, "none"),
     Page(ContractText, <<>>, "none"),
     Page(StatementText, <<HeaderOnlyTable, BalanceTable>>, "none"),
     Page(ShortText, <<HeaderOnlyTable>>, "none"),
     Page(EmptyText, <<>>, "none"),
     Page(InvoiceText, <<>>, "text")}

BackgroundDocuments ==
    {[opens |-> FALSE, pages |-> <<>>]}
    \cup {[opens |-> TRUE, pages |-> ps] : ps \in SeqsBetween(BackgroundPagePool, 0, MaxPages)}

\* the message of the exception a failing access to the store raises
DbError == "database is locked"

\* upload_pdf, lines 65-76: the upload is stored as pending, the thread started
InitBackground ==
    /\ pdf_path \in BackgroundDocuments
    /\ doc_type = "none"
    /\ result = Pending
    /\ upload_status = "pending"
    /\ error_message = None
    /\ extraction = None
    /\ job = "started"
    /\ exc = None
    /\ raw = ""
    /\ normalized = Pending
    /\ all_tables = <<>>
    /\ line_items = Pending
    /\ agg_confidences = EmptyMap
    /\ agg_key_fields = {}
    /\ agg_result = Pending
    /\ agg_double = Pending
    /\ PrimitiveIdle
    /\ ModuleImported
    /\ calls = NoCalls

\* lines 173-174: db.init_db() and db.update_pdf_status(upload_id, "processing")
MarkProcessing ==
    /\ job = "started"
    /\ \/ /\ upload_status' = "processing"
          /\ error_message' = None
          /\ job' = "extracting"
          /\ exc' = exc
       \/ /\ job' = "handling"
          /\ exc' = Str(DbError)
          /\ UNCHANGED <<upload_status, error_message>>
    /\ UNCHANGED <<primitiveVars, pdf_path, doc_type, result, extraction, normalizerVars,
                   mapperVars, aggregatorVars, moduleVars, calls>>

\* lines 177-188: the classifier and the extractor it chooses; neither raises
ClassifyAndExtract ==
    /\ job = "extracting"
    /\ \E type \in {_detect_document_type(pdf_path)} :
         \E res \in {ExtractAs(type, pdf_path)} :
            /\ doc_type' = type
            /\ result' = res
            /\ job' = IF res.success THEN "storing" ELSE "rejecting"
    /\ UNCHANGED <<exc, primitiveVars, pdf_path, upload_status, error_message, extraction,
                   normalizerVars, mapperVars, aggregatorVars, moduleVars, calls>>

\* lines 191-202: db.insert_extraction of a successful result
StoreExtraction ==
    /\ job = "storing"
    /\ \/ /\ extraction' = [extraction_type |-> doc_type,
                             extracted_data |-> result.data,
                             confidence_score |-> result.confidence,
                             page_number |-> 1]
          /\ job' = "completing"
          /\ exc' = exc
       \/ /\ job' = "handling"
          /\ exc' = Str(DbError)
          /\ extraction' = extraction
    /\ UNCHANGED <<primitiveVars, pdf_path, doc_type, result, upload_status, error_message,
                   normalizerVars, mapperVars, aggregatorVars, moduleVars, calls>>

\* lines 204-205: db.update_pdf_status(upload_id, "completed", ...)
MarkCompleted ==
    /\ job = "completing"
    /\ \/ /\ upload_status' = "completed"
          /\ error_message' = None
          /\ job' = "done"
          /\ exc' = exc
       \/ /\ job' = "handling"
          /\ exc' = Str(DbError)
          /\ UNCHANGED <<upload_status, error_message>>
    /\ UNCHANGED <<primitiveVars, pdf_path, doc_type, result, extraction, normalizerVars,
                   mapperVars, aggregatorVars, moduleVars, calls>>

\* lines 208-210: db.update_pdf_status(upload_id, "error", error_message=error_msg, ...)
MarkError ==
    /\ job = "rejecting"
    /\ \/ /\ upload_status' = "error"
          /\ error_message' = result.error
          /\ job' = "done"
          /\ exc' = exc
       \/ /\ job' = "handling"
          /\ exc' = Str(DbError)
          /\ UNCHANGED <<upload_status, error_message>>
    /\ UNCHANGED <<primitiveVars, pdf_path, doc_type, result, extraction, normalizerVars,
                   mapperVars, aggregatorVars, moduleVars, calls>>

\* lines 212-216: the except clause stores the error; when its own access to
\* the store raises, the exception leaves the thread, which ends
HandleException ==
    /\ job = "handling"
    /\ \/ /\ upload_status' = "error"
          /\ error_message' = exc
          /\ job' = "done"
       \/ /\ job' = "died"
          /\ UNCHANGED <<upload_status, error_message>>
    /\ UNCHANGED <<exc, primitiveVars, pdf_path, doc_type, result, extraction, normalizerVars,
                   mapperVars, aggregatorVars, moduleVars, calls>>

NextBackground ==
    \/ MarkProcessing
    \/ ClassifyAndExtract
    \/ StoreExtraction
    \/ MarkCompleted
    \/ MarkError
    \/ HandleException

SpecBackground == InitBackground /\ [][NextBackground]_vars

\* the steps of the thread, and those at which it has not ended
JobSteps ==
    {"started", "extracting", "storing", "completing", "rejecting", "handling", "done", "died"}

Running == JobSteps \ {"done", "died"}

\* A started thread is scheduled until it ends.  Each action of the thread is
\* enabled as soon as job names it, whatever the store does, and each moves
\* job on; the fairness condition is stated on that move, whose enabledness
\* does not need the extractors to be run.
ThreadAdvances == job \in Running /\ job' \in JobSteps \ {job}

SpecBackgroundFair == SpecBackground /\ WF_job(ThreadAdvances)

(***************************************************************************)
(* Specification of the generic lists: the generic extractor is called on  *)
(* a document of pages with few, many or no dates, amounts, phone numbers, *)
(* e-mail addresses and URLs                                               *)
(***************************************************************************)
ListPagePool ==
    {Page(ListText, <<>>, "none"),
     Page(LongText, <<>>, "none"),
     Page(ShortText, <<>>, "none"),
     Page(BlankText, <<>>, "none"),
     Page(InvoiceText, <<>>, "none"),
     Page(FullInvoiceText, <<>>, "none"),
     Page(PartyContractText, <<>>, "none"),
     Page(StatementText, <<>>, "none")}

ListDocuments == {[opens |-> TRUE, pages |-> ps] : ps \in SeqsBetween(ListPagePool, 1, MaxPages)}

InitGenericLists ==
    /\ pdf_path \in ListDocuments
    /\ doc_type = "none"
    /\ result = Pending
    /\ upload_status = "pending"
    /\ error_message = None
    /\ extraction = None
    /\ raw = ""
    /\ normalized = Pending
    /\ all_tables = <<>>
    /\ line_items = Pending
    /\ agg_confidences = EmptyMap
    /\ agg_key_fields = {}
    /\ agg_result = Pending
    /\ agg_double = Pending
    /\ PrimitiveIdle
    /\ JobIdle
    /\ ModuleImported
    /\ calls = NoCalls

NextGenericLists == ExtractGeneric

SpecGenericLists == InitGenericLists /\ [][NextGenericLists]_vars

(***************************************************************************)
(* Specification of the labeled amount: one call on one text of the form   *)
(* "<label>: <amount>" with the labels of the invoice total                *)
(***************************************************************************)
TotalLabels ==
    <<"total", "grand total", "amount due", "totalt", "sum", "balance due", "total amount",
      "invoice total", "å betale">>

TextLabels == {"total", "grand total", "amount due", "sum"}

AmountDigits == {"0", "1", "5"}

\* digits, '.', two digits
CanonicalAmounts ==
    {whole \o "." \o cents :
        whole \in UNION {StringsOfLen(AmountDigits, n) : n \in 1..MaxIntDigits},
        cents \in {"00", "56"}}

RegionalAmounts == {"1 234,56", "1.234,56", "1,234.56", "12 500,00", "1234,5", "99"}

InitLabeledAmount ==
    /\ ExtractorIdle
    /\ \E label \in TextLabels, amount \in CanonicalAmounts \cup RegionalAmounts :
          amount_text = LabeledAmountText(label, amount, TotalLabels)
    /\ labeled_amount = Pending
    /\ JobIdle
    /\ raw = ""
    /\ normalized = Pending
    /\ all_tables = <<>>
    /\ line_items = Pending
    /\ agg_confidences = EmptyMap
    /\ agg_key_fields = {}
    /\ agg_result = Pending
    /\ agg_double = Pending

ExtractLabeledAmount ==
    /\ labeled_amount = Pending
    /\ labeled_amount' = _extract_labeled_amount(amount_text, TotalLabels)
    /\ UNCHANGED <<jobVars, amount_text, normalizerVars, mapperVars, aggregatorVars, extractorVars,
                   moduleVars, calls>>

NextLabeledAmount == ExtractLabeledAmount

SpecLabeledAmount == InitLabeledAmount /\ [][NextLabeledAmount]_vars

(***************************************************************************)
(* Claims about the table mapper                                           *)
(***************************************************************************)
\* no header of the table's first row holds a description or an amount keyword
MapsNeither(tbl) ==
    \A c \in 1..Len(tbl[1]) :
        /\ ~HeaderHasRole(HeaderText(tbl[1][c]), "description")
        /\ ~HeaderHasRole(HeaderText(tbl[1][c]), "amount")

\* the tables of a list that have a first row mapping description or amount
RECURSIVE AcceptedTables(_)
AcceptedTables(tables) ==
    IF tables = <<>> THEN <<>>
    ELSE (IF Len(Head(tables)) >= 1 /\ ~MapsNeither(Head(tables)) THEN <<Head(tables)>> ELSE <<>>)
         \o AcceptedTables(Tail(tables))

\* C9: for every header row the role map is empty or holds description or
\* amount; a table whose headers map neither contributes no line items (the
\* list returned is the one the accepted tables alone would give).
C9_TableAcceptance ==
    line_items # Pending =>
        /\ \A k \in 1..Len(all_tables) :
              Len(all_tables[k]) >= 1 =>
                LET col_map == _map_line_item_columns(HeadersOf(all_tables[k][1]))
                IN  \/ DOMAIN col_map = {}
                    \/ "description" \in DOMAIN col_map
                    \/ "amount" \in DOMAIN col_map
        /\ (\A k \in 1..Len(all_tables) : Len(all_tables[k]) >= 1 => MapsNeither(all_tables[k]))
              => line_items = List(<<>>)
        /\ Len(line_items.l) = Len(_extract_line_items(AcceptedTables(all_tables)))

\* a table whose headers map quantity, unit and tax only, next to an accepted one
C9_Witness ==
    /\ all_tables = <<QuantityOnlyTable, InvoiceTable>>
    /\ DOMAIN MappedRoles(HeadersOf(QuantityOnlyTable[1])) = {"quantity", "unit", "tax"}
    /\ line_items # Pending
    /\ Len(line_items.l) = 1

(***************************************************************************)
(* Claims about the normalizer                                             *)
(***************************************************************************)
\* a string of digits with at most one '.', holding at least one digit
NumericString(s) ==
    /\ \A i \in 1..Len(s) : IsDigit(Ch(s, i)) \/ Ch(s, i) = "."
    /\ \E i \in 1..Len(s) : IsDigit(Ch(s, i))
    /\ Cardinality({i \in 1..Len(s) : Ch(s, i) = "."}) <= 1

\* ^\d+\.\d{2}$
CanonicalAmount(s) ==
    /\ Len(s) >= 4
    /\ Ch(s, Len(s) - 2) = "."
    /\ AllDigits(SubSeq(s, 1, Len(s) - 3))
    /\ AllDigits(SubSeq(s, Len(s) - 1, Len(s)))

\* C6: for every input string, the empty string included, the normalizer
\* returns a string: a numeric string with '.' as decimal mark, or the input
\* with its surrounding whitespace trimmed.
C6_AlwaysAString ==
    normalized # Pending =>
        /\ normalized.t = "str"
        /\ (NumericString(normalized.s) \/ normalized.s = Strip(raw))

\* C7: the normalizer is the identity on canonical amounts (digits, '.', two
\* digits), and so normalizing its result again changes nothing.
C7_IdentityOnCanonical ==
    (normalized # Pending /\ CanonicalAmount(raw)) =>
        /\ normalized = Str(raw)
        /\ _normalize_amount(normalized.s) = normalized

C7_Witness ==
    /\ normalized # Pending
    /\ CanonicalAmount(raw)
    /\ raw = "10000.00"

\* the digits of s, in order
RECURSIVE DigitsOf(_)
DigitsOf(s) ==
    IF s = "" THEN ""
    ELSE (IF IsDigit(Ch(s, 1)) THEN Ch(s, 1) ELSE "") \o DigitsOf(SubSeq(s, 2, Len(s)))

\* the digits of s with a '.' before the last two
TwoDecimals(s) ==
    LET d == DigitsOf(s)
    IN  SubSeq(d, 1, Len(d) - 2) \o "." \o SubSeq(d, Len(d) - 1, Len(d))

\* C8: the rules apply in the stated order, so that "1.234,56", "1,234.56",
\* "1234,56" and "1 234.56" all become "1234.56" and "abc" comes back
\* unchanged; every European long form and every US form becomes its digits
\* with '.' before the last two.
C8_RulesInOrder ==
    normalized # Pending =>
        /\ raw \in {"1.234,56", "1,234.56", "1234,56", "1 234.56"}
              => normalized = Str("1234.56")
        /\ raw = "abc" => normalized = Str("abc")
        /\ (MatchesGrouped(raw, ".", ",") \/ MatchesGrouped(raw, ",", "."))
              => normalized = Str(TwoDecimals(raw))

C8_Witness ==
    /\ raw = "1.234,56"
    /\ normalized = Str("1234.56")

(***************************************************************************)
(* Claims about the extractors                                             *)
(***************************************************************************)
\* the outcome of the try block of the extractor that ran
BodyAs(type, pdf) ==
    IF type = "invoice" THEN InvoiceBody(pdf)
    ELSE IF type = "contract" THEN ContractBody(pdf)
    ELSE IF type = "statement" THEN StatementBody(pdf)
    ELSE GenericBody(pdf)

\* the document opens and every page yields its text
TextReadable(pdf) == pdf.opens /\ ReadPages(pdf.pages, FALSE).error = None

\* the concatenated page text of a readable document
AllText(pdf) == ReadPages(pdf.pages, FALSE).all_text.str

\* C1: every result, error results included, has
\* requires_review = (success and confidence < 0.60), the confidence being
\* the one the result carries.
C1_ReviewFlag ==
    result # Pending =>
        (result.requires_review <=> (result.success /\ result.confidence < 60))

\* C2: an exception raised while the document is opened or read in any of
\* the four extractors is caught: the caller gets a result with
\* success = false, confidence 0.0, requires_review = false, empty data and
\* the exception's message as error, and no exception reaches the caller.
C2_ExceptionsCaught ==
    result # Pending =>
        /\ result.t = "result"
        /\ BodyAs(doc_type, pdf_path).t = "raise" =>
              /\ ~result.success
              /\ result.confidence = 0
              /\ ~result.requires_review
              /\ result.data = EmptyMap
              /\ result.error = Str(BodyAs(doc_type, pdf_path).msg)

\* the invoice extractor read page 1 and met an exception on page 2
C2_Witness ==
    /\ result # Pending
    /\ doc_type = "invoice"
    /\ upload_status = "pending"
    /\ Len(pdf_path.pages) = 2
    /\ pdf_path.pages[1].text = FullInvoiceText
    /\ pdf_path.pages[2].fails = "tables"
    /\ result = _error_result(TablesError(2))

\* C3: in each extractor, and on the classify-then-extract path, a document
\* whose concatenated page text is empty or whitespace yields an error
\* result: success = false, confidence 0.0 and a non-empty error.
C3_EmptyDocumentIsError ==
    (result # Pending /\ TextReadable(pdf_path) /\ Strip(AllText(pdf_path)) = "") =>
        /\ ~result.success
        /\ result.confidence = 0
        /\ result.error # None
        /\ result.error # Str("")

\* C4: every (value, confidence) pair of a result field has value None if
\* and only if its confidence is 0.0.
C4_ValueNoneIffZero ==
    (result # Pending /\ result.success) =>
        \A field \in DOMAIN result.field_confidences :
            (result.data[field] = None) <=> (result.field_confidences[field] = 0)

\* C5: a readable document with text that is not blank gets success = true
\* from every extractor, whatever was found in it.
C5_SuccessOnReadableText ==
    (/\ result # Pending
     /\ BodyAs(doc_type, pdf_path).t = "return"
     /\ TextReadable(pdf_path)
     /\ Strip(AllText(pdf_path)) # "") => result.success

(***************************************************************************)
(* Claims about the aggregator                                             *)
(***************************************************************************)
\* the sum of the confidences of the fields of a set
RECURSIVE SumOf(_, _)
SumOf(confidences, fields) ==
    IF fields = {} THEN 0
    ELSE LET f == CHOOSE x \in fields : TRUE
         IN  confidences[f] + SumOf(confidences, fields \ {f})

\* sum(w_f * c_f) and sum(w_f) over the fields of the map, w_f = 2 on key fields
MeanNumerator(confidences, keys) ==
    2 * SumOf(confidences, DOMAIN confidences \cap keys)
    + SumOf(confidences, DOMAIN confidences \ keys)

MeanDenominator(confidences, keys) ==
    2 * Cardinality(DOMAIN confidences \cap keys) + Cardinality(DOMAIN confidences \ keys)

\* C10: the aggregator returns the weighted mean over exactly the fields of
\* the map, weight 2 for key fields and 1 for the others, key fields absent
\* from the map adding nothing, and 0.0 for the empty map; the invoice
\* extractor passes {invoice_number, invoice_date, vendor_name,
\* total_amount} and the contract extractor {parties, effective_date,
\* contract_type} as key fields.
C10_WeightedMean ==
    /\ agg_result # Pending =>
          IF DOMAIN agg_confidences = {} THEN agg_result = Zero
          ELSE agg_result.num * MeanDenominator(agg_confidences, agg_key_fields)
               = MeanNumerator(agg_confidences, agg_key_fields) * agg_result.den
    /\ InvoiceKeyFields = {"invoice_number", "invoice_date", "vendor_name", "total_amount"}
    /\ ContractKeyFields = {"parties", "effective_date", "contract_type"}

\* a key field and a plain field in the map, and a key field that is absent
C10_Witness ==
    /\ agg_key_fields = {"invoice_number", "vendor_name"}
    /\ DOMAIN agg_confidences = {"invoice_number", "currency"}
    /\ agg_confidences["invoice_number"] = 90
    /\ agg_confidences["currency"] = 50
    /\ agg_result = Fraction(230, 3)

\* every field of the map has the confidence c
AllEqualTo(confidences, c) == \A field \in DOMAIN confidences : confidences[field] = c

\* C11: when every field of the map has the same confidence c the aggregator
\* returns c whatever the key fields are, and on a map of two fields making
\* one of them a key field changes the value returned only if the two
\* confidences differ.
C11_KeyFieldsIrrelevantWhenEqual ==
    agg_double # Pending =>
        /\ \A c \in AggConfidences :
              (DOMAIN agg_confidences # {} /\ AllEqualTo(agg_confidences, c))
                  => agg_double = DoubleOfHundredths(c)
        /\ Cardinality(DOMAIN agg_confidences) = 2 =>
              \A field \in DOMAIN agg_confidences \ agg_key_fields :
                  WeightedConfidenceDouble(agg_confidences, agg_key_fields \cup {field},
                                           DictOrder(agg_confidences)) # agg_double
                      => \E other \in DOMAIN agg_confidences :
                             agg_confidences[other] # agg_confidences[field]

(***************************************************************************)
(* Claims about the classifier                                             *)
(***************************************************************************)
\* the background job has classified the document and run an extractor
Classified == upload_status \in {"completed", "error"}

\* the first page's text was read: the document opens, has a page, and the
\* page's extract_text() does not raise
FirstPageRead(pdf) == pdf.opens /\ pdf.pages # <<>> /\ pdf.pages[1].fails # "text"

\* the lowercased text of the first page, "" where there is none
FirstPageLower(pdf) ==
    IF FirstPageRead(pdf) /\ pdf.pages[1].text # None
    THEN Lower(pdf.pages[1].text.str)
    ELSE ""

\* the documents that share the first page of pdf and differ after it
WithOtherLaterPages(pdf) ==
    {[opens |-> TRUE, pages |-> <<pdf.pages[1]>> \o rest] :
        rest \in SeqsBetween(PagePool, 0, MaxPages - 1)}

\* C12: the classifier returns invoice if an invoice keyword occurs in the
\* first page's text, otherwise contract if a contract keyword occurs,
\* otherwise statement if a statement keyword occurs, otherwise generic;
\* pages after the first never change the answer, and a blank first page
\* or a failure while reading gives generic.
C12_FirstPageKeywordPriority ==
    Classified =>
        LET first == FirstPageLower(pdf_path)
        IN  /\ doc_type =
                  IF \E word \in InvoiceWords : Contains(first, word) THEN "invoice"
                  ELSE IF \E word \in ContractWords : Contains(first, word) THEN "contract"
                  ELSE IF \E word \in StatementWords : Contains(first, word) THEN "statement"
                  ELSE "generic"
            /\ FirstPageRead(pdf_path) =>
                  \A other \in WithOtherLaterPages(pdf_path) :
                      _detect_document_type(other) = doc_type
            /\ Strip(first) = "" => doc_type = "generic"
            /\ ~FirstPageRead(pdf_path) => doc_type = "generic"

\* a first page with contract and statement keywords, and invoice keywords
\* on the second page only
C12_Witness ==
    /\ Classified
    /\ Len(pdf_path.pages) = 2
    /\ pdf_path.pages[1].text = PartyContractText
    /\ pdf_path.pages[2].text = InvoiceText
    /\ doc_type = "contract"

ContractReturnedFor(text) ==
    /\ result # Pending
    /\ doc_type = "contract"
    /\ TextReadable(pdf_path)
    /\ Strip(AllText(pdf_path)) = text.str

AcmeAndBeta == List(<<"Acme AS", "Beta AS">>)

\* C14 as stated: for the contract text "This Agreement is entered into
\* between Acme AS and Beta AS." the contract extractor returns a result with
\* parties ["Acme AS", "Beta AS"] and confidence 0.90.
C14_ResultConfidenceIsNinety ==
    ContractReturnedFor(ContractText) =>
        /\ result.data.parties = AcmeAndBeta
        /\ result.confidence = 90

\* C14, amended: for that text the result is a success with parties
\* ["Acme AS", "Beta AS"]; 0.90 is the confidence of the field parties, and
\* the confidence of the result is the aggregate over its twelve fields, 0.19.
C14_PartiesFieldConfidenceIsNinety ==
    ContractReturnedFor(ContractText) =>
        /\ result.success
        /\ result.data.parties = AcmeAndBeta
        /\ result.field_confidences.parties = 90
        /\ result.confidence = 19

C14_Witness ==
    /\ ContractReturnedFor(ContractText)
    /\ pdf_path.pages = <<Page(ContractText, <<>>, "none")>>
    /\ result.data.parties = AcmeAndBeta
    /\ result.field_confidences.parties = 90

(***************************************************************************)
(* Claims about the statement extractor                                    *)
(***************************************************************************)
\* the statement extractor has returned for a document it could read, text
\* and tables
StatementRead ==
    /\ result # Pending
    /\ doc_type = "statement"
    /\ StatementBody(pdf_path).t = "return"

\* the tables of the document the statement extractor keeps: those of more
\* than one row
StatementTables == ReadPages(pdf_path.pages, TRUE).all_tables

\* C15: a statement document without tables, its text not blank, gets a
\* successful result from the text-layout fallback, with confidence 0.65 and
\* the warning that the text layout was used.
C15_FallbackSucceeds ==
    (StatementRead /\ StatementTables = <<>> /\ Strip(AllText(pdf_path)) # "") =>
        /\ result.success
        /\ result.confidence = 65
        /\ result.warnings = <<"No tables detected - extracted from text layout">>

(***************************************************************************)
(* Claims about the generic extractor                                      *)
(***************************************************************************)
\* the generic extractor has returned a successful result
GenericSucceeded ==
    /\ result # Pending
    /\ doc_type = "generic"
    /\ result.success

\* a table of more than one row on some page: the tables the extractor lists
AnyTableFound(pdf) ==
    \E i \in 1..Len(pdf.pages) :
        \E j \in 1..Len(pdf.pages[i].tables) : Len(pdf.pages[i].tables[j]) > 1

GenericWarning == "Generic extraction \\u2014 specific document type may yield better results"

ScenarioTableMapped ==
    /\ line_items # Pending
    /\ all_tables =
          <<<<<<Str("Description"), Str("Qty"), Str("Unit Price"), Str("Amount")>>,
              <<Str("Consulting"), Str("10"), Str("1000.00"), Str("10000.00")>>>>>>

\* C17: that table yields exactly one line item, with description
\* "Consulting", quantity "10", unit_price "1000.00" and amount "10000.00".
C17_ScenarioLineItem ==
    ScenarioTableMapped =>
        /\ Len(line_items.l) = 1
        /\ line_items.l[1].description = Str("Consulting")
        /\ line_items.l[1].quantity = Str("10")
        /\ line_items.l[1].unit_price = Str("1000.00")
        /\ line_items.l[1].amount = Str("10000.00")

C17_Witness ==
    /\ ScenarioTableMapped
    /\ Len(line_items.l) = 1
    /\ line_items.l[1].line_no = 1
    /\ line_items.l[1].amount = Str("10000.00")

(***************************************************************************)
(* Claims about the invoice scenario                                       *)
(***************************************************************************)
\* the invoice extractor has returned for a readable document
InvoiceReturned ==
    /\ result # Pending
    /\ doc_type = "invoice"
    /\ TextReadable(pdf_path)

\* C18: for an invoice whose text contains "Invoice Number: INV-2024-001" and
\* "Total: 12 500,00 kr" the invoice extractor returns invoice_number
\* "INV-2024-001", total_amount "12500.00" and currency "NOK".
C18_InvoiceScenario ==
    (/\ InvoiceReturned
     /\ Contains(AllText(pdf_path), "Invoice Number: INV-2024-001")
     /\ Contains(AllText(pdf_path), "Total: 12 500,00 kr")) =>
        /\ result.success
        /\ result.data.invoice_number = Str("INV-2024-001")
        /\ result.data.total_amount = Str("12500.00")
        /\ result.data.currency = Str("NOK")

(***************************************************************************)
(* Claims about the warnings of an invoice result                          *)
(***************************************************************************)
\* the fields that are checked, in the order of the checks, and their warnings
WarnedFields == <<"invoice_number", "invoice_date", "total_amount", "vendor_name", "line_items">>

WarningOf ==
    [invoice_number |-> "Invoice number not detected",
     invoice_date |-> "Invoice date not detected",
     total_amount |-> "Total amount not detected",
     vendor_name |-> "Vendor name not detected",
     line_items |-> "No line items found \\u2014 check if document has a table"]

NoneOrEmpty(value) == value = None \/ value = Str("") \/ value = List(<<>>)

InvoiceSucceeded ==
    /\ result # Pending
    /\ doc_type = "invoice"
    /\ result.success

\* C19: the warnings of a successful invoice result are, in the order
\* invoice_number, invoice_date, total_amount, vendor_name, line_items, one
\* warning for each of these fields whose value in the data is None or empty,
\* and nothing else.
C19_WarningsPerMissingField ==
    InvoiceSucceeded =>
        LET missing == SelectSeq(WarnedFields, LAMBDA field : NoneOrEmpty(result.data[field]))
        IN  result.warnings = [i \in 1..Len(missing) |-> WarningOf[missing[i]]]

\* the number, the total, the vendor and the line items are missing, the date
\* is present
C19_Witness ==
    /\ InvoiceSucceeded
    /\ result.data.invoice_date # None
    /\ result.data.line_items = List(<<>>)
    /\ result.warnings = <<"Invoice number not detected", "Total amount not detected",
                           "Vendor name not detected",
                           "No line items found \\u2014 check if document has a table">>

(***************************************************************************)
(* Claims about the summary total of a statement                           *)
(***************************************************************************)
\* the statement extractor has returned for a document it could read and in
\* which it found a table
StatementWithTables == StatementRead /\ StatementTables # <<>>

\* the entries of the data whose key begins with summary_
SummaryEntries(data) ==
    LET keys == {key \in DOMAIN data : Len(key) > 8 /\ SubSeq(key, 1, 8) = "summary_"}
    IN  [key \in keys |-> data[key]]

\* the labeled amount of a label in the text of the document, None if none
SummaryAmount(label) ==
    _extract_labeled_amount(ReadPages(pdf_path.pages, TRUE).all_text, <<label>>).value

\* the one entry of the first label of the list with a labeled amount, or none
FirstHitEntry(labels) ==
    LET hits == {i \in 1..Len(labels) : SummaryAmount(labels[i]) # None}
    IN  IF hits = {} THEN EmptyMap
        ELSE LET first == CHOOSE i \in hits : \A j \in hits : i <= j
             IN  [key \in {"summary_" \o Replace(labels[first], " ", "_")} |->
                     SummaryAmount(labels[first])]

\* C20 as stated: a statement with at least one table gets success,
\* confidence 0.82 and empty field_confidences, and of the summary totals at
\* most one entry: that of the first label in the order total, net income,
\* balance, sum for which a labeled amount is found.
C20_SummaryOfFourLabels ==
    StatementWithTables =>
        /\ result.success
        /\ result.confidence = 82
        /\ result.field_confidences = EmptyMap
        /\ SummaryEntries(result.data) = FirstHitEntry(<<"total", "net income", "balance", "sum">>)

\* C20, amended: the same with the list of six labels of the code: total,
\* net income, balance, sum, totalt, resultat.
C20_SummaryOfSixLabels ==
    StatementWithTables =>
        /\ result.success
        /\ result.confidence = 82
        /\ result.field_confidences = EmptyMap
        /\ SummaryEntries(result.data) =
              FirstHitEntry(<<"total", "net income", "balance", "sum", "totalt", "resultat">>)

\* a statement with a table whose text has amounts for total and for balance:
\* the entry is the total's
C20_Witness ==
    /\ StatementWithTables
    /\ SummaryAmount("total") # None
    /\ SummaryAmount("balance") # None
    /\ result.confidence = 82
    /\ DOMAIN SummaryEntries(result.data) = {"summary_total"}

(***************************************************************************)
(* Claims about the columns the mapper assigns                             *)
(***************************************************************************)
\* the header cell of column c (1-based) of the row, whatever its case, holds
\* a keyword of the role
CellNamesRole(row0, c, role) ==
    /\ Truthy(row0[c])
    /\ \E kw \in role_keywords[role] : Contains(Lower(row0[c].s), kw)

RoleNamed(row0, role) == \E c \in 1..Len(row0) : CellNamesRole(row0, c, role)

\* the mapper was called on the header row of every table of two rows or more
MapperCalled == line_items # Pending

Accepted(tbl) ==
    /\ Len(tbl) >= 2
    /\ (RoleNamed(tbl[1], "description") \/ RoleNamed(tbl[1], "amount"))

\* the row has a cell that is neither None nor ""
NotEntirelyEmpty(row) == \E c \in 1..Len(row) : row[c] # None /\ row[c] # Str("")

\* the trimmed text of the row's cell in the column mapped to the role, ""
\* where the role is not mapped, the row is too short or the cell is None
MappedCell(tbl, row, role) ==
    LET col_map == _map_line_item_columns(HeadersOf(tbl[1]))
    IN  IF role \in DOMAIN col_map /\ col_map[role] < Len(row) /\ row[col_map[role] + 1] # None
        THEN Strip(row[col_map[role] + 1].s)
        ELSE ""

\* the row has a description, or an amount that is not empty once normalized
HasDescriptionOrAmount(tbl, row) ==
    \/ MappedCell(tbl, row, "description") # ""
    \/ /\ MappedCell(tbl, row, "amount") # ""
       /\ _normalize_amount(MappedCell(tbl, row, "amount")) \notin {None, Str("")}

\* the positions (1-based, in the body) of the rows of the table that the
\* claim lets through, in order
ProducingRows(tbl) ==
    IF ~Accepted(tbl) THEN <<>>
    ELSE SelectSeq([i \in 1..(Len(tbl) - 1) |-> i],
                   LAMBDA i : /\ NotEntirelyEmpty(tbl[i + 1])
                              /\ HasDescriptionOrAmount(tbl, tbl[i + 1]))

RECURSIVE ProducingRowsOfAll(_)
ProducingRowsOfAll(tables) ==
    IF tables = <<>> THEN <<>>
    ELSE ProducingRows(Head(tables)) \o ProducingRowsOfAll(Tail(tables))

\* C22: the line items are, table after table, those of the body rows of the
\* accepted tables that are not entirely empty and have a description or an
\* amount that is not empty; no other row gives an item.
C22_RowsThatProduceItems ==
    MapperCalled =>
        [i \in 1..Len(line_items.l) |-> line_items.l[i].line_no] = ProducingRowsOfAll(all_tables)

\* of the four body rows of the Norwegian table the first and the last give an
\* item; the second is empty, the third is not, but its description (the
\* column Varenr holds the keyword vare) is two spaces and its amount is empty
C22_Witness ==
    /\ MapperCalled
    /\ all_tables = <<NorwegianTable>>
    /\ ~NotEntirelyEmpty(NorwegianTable[3])
    /\ NotEntirelyEmpty(NorwegianTable[4])
    /\ ~HasDescriptionOrAmount(NorwegianTable, NorwegianTable[4])
    /\ Len(line_items.l) = 2
    /\ line_items.l[1].description = Str("A-1")
    /\ line_items.l[2].description = Str("")
    /\ line_items.l[2].amount = Str("10.00")

(***************************************************************************)
(* Claims about the numbering of line items                                *)
(***************************************************************************)
\* the number of items the tables before the k-th have given
RECURSIVE ItemsBefore(_)
ItemsBefore(k) ==
    IF k <= 1 THEN 0
    ELSE ItemsBefore(k - 1) + Len(ProducingRows(all_tables[k - 1]))

\* the item holds the description and the amount of the row
ItemIsOfRow(item, tbl, row) ==
    /\ "description" \in DOMAIN item => item.description = Str(MappedCell(tbl, row, "description"))
    /\ "amount" \in DOMAIN item => item.amount = _normalize_amount(MappedCell(tbl, row, "amount"))

\* C23: the line_no of an item is the position, counted from 1, of its row in
\* the body of its own table: the items of a table have strictly increasing
\* numbers within 1..(rows of the body), each the number of the row whose
\* values the item holds, whatever the tables before it gave and whether or
\* not rows before it were skipped.
C23_LineNoIsRowPosition ==
    MapperCalled =>
        \A k \in 1..Len(all_tables) :
            LET tbl == all_tables[k]
                first == ItemsBefore(k)
            IN  \A i \in 1..Len(ProducingRows(tbl)) :
                    LET item == line_items.l[first + i]
                    IN  /\ item.line_no \in 1..(Len(tbl) - 1)
                        /\ item.line_no = ProducingRows(tbl)[i]
                        /\ ItemIsOfRow(item, tbl, tbl[item.line_no + 1])
                        /\ i > 1 => line_items.l[first + i - 1].line_no < item.line_no

\* the Norwegian table gives items 1 and 4, rows 2 and 3 being skipped, and
\* the table after it starts again at 1
C23_Witness ==
    /\ MapperCalled
    /\ all_tables = <<NorwegianTable, InvoiceTable>>
    /\ [i \in 1..Len(line_items.l) |-> line_items.l[i].line_no] = <<1, 4, 1>>
    /\ line_items.l[3].description = Str("Consulting")

(***************************************************************************)
(* Claims about the labeled dates                                          *)
(***************************************************************************)
\* the date fields of the invoice and the contract extractor, each with the
\* labels it is looked up with
DateFieldLabels ==
    [invoice_date |-> <<"invoice date", "fakturadato", "date", "dato", "issued", "invoice">>,
     due_date |-> <<"due date", "forfallsdato", "payment due", "due", "forfall", "betalingsfrist">>,
     effective_date |-> <<"effective date", "commencement", "start date", "ikrafttredelse",
                          "fra dato">>,
     expiration_date |-> <<"expiration", "termination", "end date", "expiry", "utløpsdato",
                           "til dato">>,
     signing_date |-> <<"signed", "executed", "dated", "signature date", "signert">>]

DateFieldsOf(type) ==
    IF type = "invoice" THEN {"invoice_date", "due_date"}
    ELSE {"effective_date", "expiration_date", "signing_date"}

Least(S) == CHOOSE i \in S : \A j \in S : i <= j

\* the date shapes (by position: ISO, European, textual month, compact) in
\* which `label : <date>` matches somewhere in the text
DirectShapes(text, label) ==
    {j \in 1..4 : HasHit(text, "date_direct", label \o "/" \o ToString(j))}

\* the date shapes found within the window after the first place of the label
WindowShapes(text, label) ==
    IF ~HasHit(text, "date_window", label) THEN {}
    ELSE {j \in 1..4 : FirstHit(text, "date_window", label).v[j] # ""}

\* what the claim gives for a text and a list of labels
DateAsClaimed(text, labels) ==
    LET direct == {i \in 1..Len(labels) : DirectShapes(text, labels[i]) # {}}
        window == {i \in 1..Len(labels) : WindowShapes(text, labels[i]) # {}}
    IN  IF direct # {}
        THEN LET label == labels[Least(direct)]
                 key == label \o "/" \o ToString(Least(DirectShapes(text, label)))
             IN  Found(Str(Strip(FirstHit(text, "date_direct", key).v[1])), 90)
        ELSE IF window # {}
        THEN LET label == labels[Least(window)]
             IN  Found(Str(Strip(FirstHit(text, "date_window", label).v[
                                     Least(WindowShapes(text, label))])), 70)
        ELSE Found(None, 0)

DatesExtracted ==
    /\ result # Pending
    /\ doc_type \in {"invoice", "contract"}
    /\ result.success

\* C24: every date field of an invoice or contract result is the direct match
\* of the earliest label that has one, in the earliest date shape that
\* matches for that label, with confidence 0.90; where no label has a direct
\* match it is the date in the window of the earliest label that has one,
\* with 0.70; where there is neither it is None with 0.0.
C24_DirectBeforeWindow ==
    DatesExtracted =>
        \A field \in DateFieldsOf(doc_type) :
            LET claimed == DateAsClaimed(ReadPages(pdf_path.pages, FALSE).all_text,
                                         DateFieldLabels[field])
            IN  /\ result.data[field] = claimed.value
                /\ result.field_confidences[field] = claimed.confidence

\* the contract page has a date in the window of the label termination and a
\* direct match of the later label end date, which is returned; its two
\* signing dates are European first and ISO second, and the ISO one is
\* returned
C24_Witness ==
    /\ DatesExtracted
    /\ doc_type = "contract"
    /\ pdf_path.pages = <<Page(PartyContractText, <<>>, "none")>>
    /\ WindowShapes(PartyContractText, "termination") = {1}
    /\ DirectShapes(PartyContractText, "termination") = {}
    /\ DirectShapes(PartyContractText, "signed") = {1, 2}
    /\ result.data.expiration_date = Str("31.12.2024")
    /\ result.field_confidences.expiration_date = 90
    /\ result.data.signing_date = Str("2024-01-06")

(***************************************************************************)
(* Claims about the labeled amount                                         *)
(***************************************************************************)
\* the amount of the text "<label>: <amount>"
AmountIn(str) ==
    LET colon == CHOOSE i \in 1..Len(str) : Ch(str, i) = ":"
    IN  SubSeq(str, colon + 2, Len(str))

LabeledAmountReturned == labeled_amount # Pending

\* C25: for a text "<label>: <amount>" with a listed label, the labeled
\* amount is the normalized form of the complete amount at confidence 0.90;
\* a canonical amount x comes back as (x, 0.90).
C25_CompleteAmount ==
    LabeledAmountReturned =>
        /\ labeled_amount = Found(_normalize_amount(AmountIn(amount_text.str)), 90)
        /\ CanonicalAmount(AmountIn(amount_text.str)) =>
               labeled_amount = Found(Str(AmountIn(amount_text.str)), 90)

(***************************************************************************)
(* Claims about the bank information of an invoice                         *)
(***************************************************************************)
\* the text the invoice extractor read
InvoiceTextRead == ReadPages(pdf_path.pages, TRUE).all_text

\* the bank patterns, in the order IBAN, account number, SWIFT/BIC, that
\* match somewhere in the text
BankPatternsMatching == {i \in 1..3 : HasHit(InvoiceTextRead, "bank", ToString(i))}

BankCapture(i) == Str(Strip(FirstHit(InvoiceTextRead, "bank", ToString(i)).v[1]))

\* C26: the bank information of an invoice is the capture of the first of
\* the patterns IBAN, account number, SWIFT/BIC that matches, with the
\* confidence 0.95, 0.80, 0.90 of that pattern, whatever the confidences of
\* the later patterns that match too; None at 0.0 when none matches.
C26_FirstBankPatternWins ==
    InvoiceSucceeded =>
        IF BankPatternsMatching = {}
        THEN /\ result.data.bank_account = None
             /\ result.field_confidences.bank_account = 0
        ELSE LET first == Least(BankPatternsMatching)
             IN  /\ result.data.bank_account = BankCapture(first)
                 /\ result.field_confidences.bank_account = <<95, 80, 90>>[first]

\* a text with a labeled account number and a SWIFT code, and no IBAN
C26_Witness ==
    /\ InvoiceSucceeded
    /\ BankPatternsMatching = {2, 3}
    /\ result.data.bank_account = Str("1503 12 34567")
    /\ result.field_confidences.bank_account = 80
    /\ BankCapture(3) = Str("DNBANOKK")

(***************************************************************************)
(* Claims about the parties of a contract                                  *)
(***************************************************************************)
ContractSucceeded ==
    /\ result # Pending
    /\ doc_type = "contract"
    /\ result.success

\* the text the contract extractor read
ContractTextRead == ReadPages(pdf_path.pages, FALSE).all_text

BetweenMatches == HasHit(ContractTextRead, "parties_between", "1")

\* the captures of the first "between X and Y" of the text
BetweenCaptures == FirstHit(ContractTextRead, "parties_between", "1").v

\* the captures of every "Party A: X" of the text, in text order
LabeledCaptures == AllMatches(ContractTextRead, "parties_labeled", "1")

\* C27: the parties of a contract are the two of "between X and Y" at
\* confidence 0.90 whenever that pattern matches somewhere in the text; only
\* when it does not, the "Party A/B:" captures at 0.85; the list never has
\* more than two parties, and the confidence is 0.0 when neither matches.
C27_BetweenBeforeLabeled ==
    ContractSucceeded =>
        LET parties == result.data.parties.l
            confidence == result.field_confidences.parties
        IN  /\ Len(parties) <= 2
            /\ BetweenMatches =>
                   /\ parties = <<Strip(BetweenCaptures[1]), Strip(BetweenCaptures[2])>>
                   /\ confidence = 90
            /\ (~BetweenMatches /\ LabeledCaptures # <<>>) =>
                   /\ Len(parties) = (IF Len(LabeledCaptures) = 1 THEN 1 ELSE 2)
                   /\ \A i \in 1..Len(parties) : parties[i] = Strip(LabeledCaptures[i])
                   /\ confidence = 85
            /\ (~BetweenMatches /\ LabeledCaptures = <<>>) =>
                   /\ parties = <<>>
                   /\ confidence = 0

\* a contract of two pages, the labeled parties on the first and "between
\* Acme AS and Beta AS" on the second
C27_Witness ==
    /\ ContractSucceeded
    /\ Len(pdf_path.pages) = 2
    /\ pdf_path.pages[1].text = PartyContractText
    /\ BetweenMatches
    /\ Len(LabeledCaptures) = 3
    /\ result.data.parties = List(<<"Acme AS", "Beta AS">>)
    /\ result.field_confidences.parties = 90

(***************************************************************************)
(* Claims about the lists of a generic result                              *)
(***************************************************************************)
\* the text the generic extractor read
GenericTextRead == ReadPages(pdf_path.pages, TRUE).all_text

\* the matches of DATE_PATTERNS, pattern by pattern, and of the four other
\* patterns, in text order, the amounts and phone numbers stripped
StrippedMatches(p) ==
    LET found == AllMatches(GenericTextRead, p, "1")
    IN  [i \in 1..Len(found) |-> Strip(found[i])]

ListMatches ==
    [dates_found |-> AllDates(GenericTextRead),
     amounts_found |-> StrippedMatches("bare_amount"),
     emails_found |-> AllMatches(GenericTextRead, "bare_email", "1"),
     phones_found |-> StrippedMatches("bare_phone"),
     urls_found |-> AllMatches(GenericTextRead, "bare_url", "1")]

ListKeys == DOMAIN ListMatches

Range(seq) == {seq[i] : i \in 1..Len(seq)}

\* the number of entries of a list of the result, and the entries
Entries(key) == BagCardinality(result.data[key])

EntriesOf(key) == BagToSet(result.data[key])

\* C28: in a generic result dates_found, amounts_found and phones_found
\* hold no match twice and at most 20, 20 and 10 entries; emails_found and
\* urls_found hold no match twice and every distinct match, however many; a
\* list is present only when its pattern matched at least once.
C28_ListsCappedAndDistinct ==
    GenericSucceeded =>
        /\ \A key \in ListKeys :
              /\ key \in DOMAIN result.data <=> ListMatches[key] # <<>>
              /\ key \in DOMAIN result.data =>
                     /\ EntriesOf(key) # {}
                     /\ EntriesOf(key) \subseteq Range(ListMatches[key])
                     /\ \A entry \in EntriesOf(key) : CopiesIn(entry, result.data[key]) = 1
        /\ "dates_found" \in DOMAIN result.data => Entries("dates_found") <= 20
        /\ "amounts_found" \in DOMAIN result.data => Entries("amounts_found") <= 20
        /\ "phones_found" \in DOMAIN result.data => Entries("phones_found") <= 10
        /\ "emails_found" \in DOMAIN result.data =>
               EntriesOf("emails_found") = Range(ListMatches.emails_found)
        /\ "urls_found" \in DOMAIN result.data =>
               EntriesOf("urls_found") = Range(ListMatches.urls_found)

\* more than twenty distinct dates, amounts, e-mail addresses and URLs and
\* more than ten distinct phone numbers, and an address that stands twice
C28_Witness ==
    /\ GenericSucceeded
    /\ Cardinality(Range(ListMatches.dates_found)) > 20 /\ Entries("dates_found") = 20
    /\ Cardinality(Range(ListMatches.amounts_found)) > 20 /\ Entries("amounts_found") = 20
    /\ Cardinality(Range(ListMatches.phones_found)) > 10 /\ Entries("phones_found") = 10
    /\ Entries("emails_found") = 22
    /\ Len(ListMatches.emails_found) = 23
    /\ Entries("urls_found") = 22

(***************************************************************************)
(* Claims about columns that serve several roles                           *)
(***************************************************************************)
\* the leftmost column (1-based) of the header row whose cell holds a keyword
\* of the role: it is fixed by the header row and the keywords of that role
LeftmostNaming(row0, role) ==
    CHOOSE c \in 1..Len(row0) :
        /\ CellNamesRole(row0, c, role)
        /\ \A d \in 1..(c - 1) : ~CellNamesRole(row0, d, role)

\* what a role holds of a cell: the trimmed text, normalized for the numeric
\* roles
RoleValueOf(role, cell) ==
    LET cell_value == IF cell = None THEN "" ELSE Strip(cell.s)
    IN  IF role \in {"quantity", "unit_price", "amount", "tax"}
        THEN _normalize_amount(cell_value)
        ELSE Str(cell_value)

\* the roles the header row gives to column c
RolesOfColumn(row0, c) ==
    {role \in Roles : RoleNamed(row0, role) /\ LeftmostNaming(row0, role) = c}

Terminal == {"completed", "error"}

\* the status changes only from pending to processing and from processing to
\* completed or error
StatusMovesInOrder ==
    [][upload_status' # upload_status =>
          <<upload_status, upload_status'>> \in
              {<<"pending", "processing">>, <<"processing", "completed">>,
               <<"processing", "error">>}]_vars

\* the status ends, and stays, terminal
StatusEndsTerminal == <>[](upload_status \in Terminal)

\* the extractor the classifier chose has returned success
ChosenExtractorSucceeded ==
    /\ result # Pending
    /\ doc_type = _detect_document_type(pdf_path)
    /\ result = ExtractAs(doc_type, pdf_path)
    /\ result.success

\* completed is set only for a success, and only once the extraction record
\* of the upload is stored
CompletedOnlyAfterRecord ==
    [](upload_status = "completed" =>
          /\ ChosenExtractorSucceeded
          /\ extraction # None
          /\ extraction.extraction_type = doc_type
          /\ extraction.extracted_data = result.data)

\* when the thread has ended the status is completed for a success without
\* exception, and error with the message of the result or of the exception
\* otherwise
ThreadEnded == job \in {"done", "died"}

EndsAsTheOutcomeSays ==
    [](ThreadEnded =>
          IF exc = None /\ ChosenExtractorSucceeded
          THEN upload_status = "completed"
          ELSE /\ upload_status = "error"
               /\ error_message = (IF exc # None THEN exc ELSE result.error))

\* C30: the status of an upload in background extraction moves from pending
\* to processing and from there to completed or error, and it ends in one of
\* these two; it ends as completed exactly when the extractor chosen by the
\* classifier returned success, the extraction record being stored before,
\* and as error with the error message otherwise, also when a step raises.
C30_StatusLifecycle ==
    /\ StatusMovesInOrder
    /\ StatusEndsTerminal
    /\ CompletedOnlyAfterRecord
    /\ EndsAsTheOutcomeSays
====
